---------------------------- MODULE Spec2Model ----------------------------
(***************************************************************************)
(* Model of the hotel reservation manager (src/6.2/src): the three JSONL   *)
(* files, the entity validators of models.py and the public operations of  *)
(* HotelSystem.  Every public operation is one action: it loads the files  *)
(* it needs, validates, mutates in memory and rewrites the files.  The     *)
(* number converter (src/4.2/p2) and the sales calculator (src/5.2), two   *)
(* independent scripts, are modelled at the end as functions applied to    *)
(* their arguments.                                                        *)
(***************************************************************************)
EXTENDS Integers, Sequences, FiniteSets, TLC

VARIABLES
    hotels_file,        \* hotels.jsonl: sequence of decoded lines (mappings)
    customers_file,     \* customers.jsonl
    reservations_file,  \* reservations.jsonl
    issued,             \* identifiers uuid4 has produced for stored records
    call,               \* name of the last public operation invoked
    ret,                \* its outcome, and the entity a create_* returned
                        \* (what a display_* or search returns is given by
                        \* the *_information and reservations_by_name
                        \* operators)
    arg,                \* the argument of the function applied last, where
                        \* a function of the program is applied on its own
    result,             \* what that function returned
    managers,           \* the calls in progress of the manager instances
                        \* that share the files step by step: position in
                        \* the call, arguments and the lists loaded
    hotels_before       \* history: hotels.jsonl as the last reservation
                        \* request found it, kept while the reservation it
                        \* created is cancelled by the very next call
                        \* (empty after any other call)

vars == <<hotels_file, customers_file, reservations_file, issued, call, ret,
          managers, hotels_before, arg, result>>

files == <<hotels_file, customers_file, reservations_file>>

-----------------------------------------------------------------------------
(* Bounds of the model. *)

\* number of identifiers uuid4 produces for hotels, customers, reservations
MaxHotels == 2
MaxCustomers == 1
MaxReservations == 2
\* largest room count an argument carries
MaxRooms == 2

-----------------------------------------------------------------------------
(* Python / JSON values.  A value carries its dynamic type, so that the    *)
(* conversions str(), int() and list() can succeed or raise as in Python.  *)

JInt(n) == [kind |-> "int", val |-> n]
JStr(s) == [kind |-> "str", val |-> s]
JList(l) == [kind |-> "list", val |-> l]
JNull == [kind |-> "null", val |-> 0]

\* result of a conversion: the exception raised ("" when none) and the value
Returned(v) == [exc |-> "", val |-> v]
Raised(e) == [exc |-> e, val |-> JNull]

\* Optional entity: what from_dict returns
None == [is_none |-> TRUE]
Some(e) == [is_none |-> FALSE, value |-> e]

\* truth value of a Python object (used by `amenities or []`)
py_truthy(v) ==
    CASE v.kind = "int" -> v.val # 0
      [] v.kind = "str" -> v.val # ""
      [] v.kind = "list" -> v.val # <<>>
      [] v.kind = "null" -> FALSE

\* str(x): never raises for the values of the model
py_str(v) ==
    CASE v.kind = "str" -> v
      [] v.kind = "int" -> JStr(ToString(v.val))
      [] v.kind = "null" -> JStr("None")

\* the integers a decimal string of the model can denote
IntLiterals == (0 - 1 - MaxRooms)..(MaxRooms + 1)

\* a float: a finite one is counted in halves (5 is 2.5; on such values the
\* float arithmetic of the model's range is exact), next to inf and nan
JFloat(halves) == [kind |-> "float", val |-> halves]
JInf == [kind |-> "inf", val |-> 0]
JNaN == [kind |-> "nan", val |-> 0]

\* int(x): ValueError for a non-numeric string or nan, TypeError for None or
\* a list, OverflowError for inf; a finite float is truncated towards zero
py_int(v) ==
    CASE v.kind = "int" -> Returned(v)
      [] v.kind = "str" ->
            IF \E n \in IntLiterals : ToString(n) = v.val
            THEN Returned(JInt(CHOOSE n \in IntLiterals : ToString(n) = v.val))
            ELSE Raised("ValueError")
      [] v.kind \in {"null", "list"} -> Raised("TypeError")
      [] v.kind = "float" ->
            Returned(JInt(IF v.val >= 0 THEN v.val \div 2
                          ELSE 0 - ((0 - v.val) \div 2)))
      [] v.kind = "nan" -> Raised("ValueError")
      [] v.kind = "inf" -> Raised("OverflowError")

\* list(x): TypeError for a non-iterable (an int, None)
py_list(v) ==
    CASE v.kind = "list" -> Returned(v)
      [] v.kind \in {"int", "null"} -> Raised("TypeError")

\* `sub in s` for strings
py_contains(sub, s) ==
    \E i \in 1..(Len(s) - Len(sub) + 1) : SubSeq(s, i, i + Len(sub) - 1) = sub

Whitespace == {" ", "\t", "\n"}

RECURSIVE py_lstrip(_)
py_lstrip(s) ==
    IF Len(s) > 0 /\ SubSeq(s, 1, 1) \in Whitespace
    THEN py_lstrip(SubSeq(s, 2, Len(s)))
    ELSE s

RECURSIVE py_rstrip(_)
py_rstrip(s) ==
    IF Len(s) > 0 /\ SubSeq(s, Len(s), Len(s)) \in Whitespace
    THEN py_rstrip(SubSeq(s, 1, Len(s) - 1))
    ELSE s

\* s.strip()
py_strip(s) == py_rstrip(py_lstrip(s))

UpperCase == "ABCDEFGHIJKLMNOPQRSTUVWXYZ"
LowerCase == "abcdefghijklmnopqrstuvwxyz"

\* the lower-case letter of every upper-case letter
LowerOf ==
    [ch \in {SubSeq(UpperCase, i, i) : i \in 1..Len(UpperCase)} |->
        LET i == CHOOSE i \in 1..Len(UpperCase) : SubSeq(UpperCase, i, i) = ch
        IN  SubSeq(LowerCase, i, i)]

\* s.lower()
RECURSIVE py_lower(_)
py_lower(s) ==
    IF Len(s) = 0 THEN ""
    ELSE LET ch == SubSeq(s, 1, 1)
         IN  (IF ch \in DOMAIN LowerOf THEN LowerOf[ch] ELSE ch)
                \o py_lower(SubSeq(s, 2, Len(s)))

\* a slip: the first argument, whatever the second
py_min_first(a, b) == a

\* min(a, b)
py_min(a, b) == IF b < a THEN b ELSE a

-----------------------------------------------------------------------------
(* Entities (models.py).  An entity is the record of its fields; to_dict   *)
(* copies the fields into a mapping, from_dict converts and validates.     *)

Hotel_to_dict(h) ==
    [hotel_id |-> h.hotel_id, name |-> h.name, location |-> h.location,
     total_rooms |-> h.total_rooms, available_rooms |-> h.available_rooms,
     amenities |-> h.amenities]

\* a slip: available_rooms is not compared with total_rooms
Hotel_from_dict_no_capacity_check(payload) ==
    IF ~({"hotel_id", "name", "location", "total_rooms", "available_rooms"}
            \subseteq DOMAIN payload)
    THEN None
    ELSE
      LET total == py_int(payload.total_rooms)
          avail == py_int(payload.available_rooms)
          amen == py_list(IF "amenities" \in DOMAIN payload
                          THEN payload.amenities ELSE JList(<<>>))
      IN  IF total.exc # "" \/ avail.exc # "" \/ amen.exc # ""
          THEN None
          ELSE IF total.val.val < 0 \/ avail.val.val < 0
          THEN None
          ELSE Some([hotel_id |-> py_str(payload.hotel_id),
                     name |-> py_str(payload.name),
                     location |-> py_str(payload.location),
                     total_rooms |-> total.val,
                     available_rooms |-> avail.val,
                     amenities |-> amen.val])

\* a slip: a hotel without rooms is refused
Hotel_from_dict_positive_rooms(payload) ==
    IF ~({"hotel_id", "name", "location", "total_rooms", "available_rooms"}
            \subseteq DOMAIN payload)
    THEN None
    ELSE
      LET total == py_int(payload.total_rooms)
          avail == py_int(payload.available_rooms)
          amen == py_list(IF "amenities" \in DOMAIN payload
                          THEN payload.amenities ELSE JList(<<>>))
      IN  IF total.exc # "" \/ avail.exc # "" \/ amen.exc # ""
          THEN None
          ELSE IF total.val.val <= 0 \/ avail.val.val < 0
          THEN None
          ELSE IF avail.val.val > total.val.val
          THEN None
          ELSE Some([hotel_id |-> py_str(payload.hotel_id),
                     name |-> py_str(payload.name),
                     location |-> py_str(payload.location),
                     total_rooms |-> total.val,
                     available_rooms |-> avail.val,
                     amenities |-> amen.val])

\* a slip: available_rooms above total_rooms is clamped, not rejected
Hotel_from_dict_clamping(payload) ==
    IF ~({"hotel_id", "name", "location", "total_rooms", "available_rooms"}
            \subseteq DOMAIN payload)
    THEN None
    ELSE
      LET total == py_int(payload.total_rooms)
          avail == py_int(payload.available_rooms)
          amen == py_list(IF "amenities" \in DOMAIN payload
                          THEN payload.amenities ELSE JList(<<>>))
      IN  IF total.exc # "" \/ avail.exc # "" \/ amen.exc # ""
          THEN None
          ELSE IF total.val.val < 0 \/ avail.val.val < 0
          THEN None
          ELSE Some([hotel_id |-> py_str(payload.hotel_id),
                     name |-> py_str(payload.name),
                     location |-> py_str(payload.location),
                     total_rooms |-> total.val,
                     available_rooms |->
                         JInt(py_min(avail.val.val, total.val.val)),
                     amenities |-> amen.val])

Hotel_from_dict(payload) ==
    IF ~({"hotel_id", "name", "location", "total_rooms", "available_rooms"}
            \subseteq DOMAIN payload)
    THEN None   \* KeyError
    ELSE
      LET total == py_int(payload.total_rooms)
          avail == py_int(payload.available_rooms)
          amen == py_list(IF "amenities" \in DOMAIN payload
                          THEN payload.amenities ELSE JList(<<>>))
      IN  IF total.exc # "" \/ avail.exc # "" \/ amen.exc # ""
          THEN None   \* TypeError, ValueError
          ELSE IF total.val.val < 0 \/ avail.val.val < 0
          THEN None
          ELSE IF avail.val.val > total.val.val
          THEN None
          ELSE Some([hotel_id |-> py_str(payload.hotel_id),
                     name |-> py_str(payload.name),
                     location |-> py_str(payload.location),
                     total_rooms |-> total.val,
                     available_rooms |-> avail.val,
                     amenities |-> amen.val])

Customer_to_dict(c) ==
    [customer_id |-> c.customer_id, full_name |-> c.full_name,
     email |-> c.email, phone |-> c.phone]

\* a slip: the name is not tested
Customer_from_dict_no_name_check(payload) ==
    IF ~({"customer_id", "full_name", "email", "phone"} \subseteq DOMAIN payload)
    THEN None
    ELSE
      LET customer == [customer_id |-> py_str(payload.customer_id),
                       full_name |-> py_str(payload.full_name),
                       email |-> py_str(payload.email),
                       phone |-> py_str(payload.phone)]
      IN  IF ~py_contains("@", customer.email.val)
          THEN None
          ELSE Some(customer)

Customer_from_dict(payload) ==
    IF ~({"customer_id", "full_name", "email", "phone"} \subseteq DOMAIN payload)
    THEN None   \* KeyError
    ELSE
      LET customer == [customer_id |-> py_str(payload.customer_id),
                       full_name |-> py_str(payload.full_name),
                       email |-> py_str(payload.email),
                       phone |-> py_str(payload.phone)]
      IN  IF ~py_contains("@", customer.email.val)
             \/ py_strip(customer.full_name.val) = ""
          THEN None
          ELSE Some(customer)

\* a slip: the status is not written
Reservation_to_dict_without_status(r) ==
    [reservation_id |-> r.reservation_id, customer_id |-> r.customer_id,
     hotel_id |-> r.hotel_id, room_count |-> r.room_count]

Reservation_to_dict(r) ==
    [reservation_id |-> r.reservation_id, customer_id |-> r.customer_id,
     hotel_id |-> r.hotel_id, room_count |-> r.room_count, status |-> r.status]

Reservation_from_dict(payload) ==
    IF ~({"reservation_id", "customer_id", "hotel_id", "room_count"}
            \subseteq DOMAIN payload)
    THEN None   \* KeyError
    ELSE
      LET count == py_int(payload.room_count)
          status == py_str(IF "status" \in DOMAIN payload
                           THEN payload.status ELSE JStr("active"))
      IN  IF count.exc # ""
          THEN None   \* TypeError, ValueError
          ELSE IF count.val.val <= 0
          THEN None
          ELSE IF status.val \notin {"active", "cancelled"}
          THEN None
          ELSE Some([reservation_id |-> py_str(payload.reservation_id),
                     customer_id |-> py_str(payload.customer_id),
                     hotel_id |-> py_str(payload.hotel_id),
                     room_count |-> count.val,
                     status |-> status])

-----------------------------------------------------------------------------
(* Persistence (storage.py and the _load_* / _save_* helpers).             *)

\* the entities of the lines that validate, in file order
RECURSIVE load_hotels(_)
load_hotels(lines) ==
    IF lines = <<>> THEN <<>>
    ELSE LET hotel == Hotel_from_dict(Head(lines))
         IN  (IF hotel.is_none THEN <<>> ELSE <<hotel.value>>)
                \o load_hotels(Tail(lines))

RECURSIVE load_customers(_)
load_customers(lines) ==
    IF lines = <<>> THEN <<>>
    ELSE LET customer == Customer_from_dict(Head(lines))
         IN  (IF customer.is_none THEN <<>> ELSE <<customer.value>>)
                \o load_customers(Tail(lines))

RECURSIVE load_reservations(_)
load_reservations(lines) ==
    IF lines = <<>> THEN <<>>
    ELSE LET reservation == Reservation_from_dict(Head(lines))
         IN  (IF reservation.is_none THEN <<>> ELSE <<reservation.value>>)
                \o load_reservations(Tail(lines))

\* a slip: the lines that were rejected at load are written back first
save_hotels_with_rejected(hotels) ==
    SelectSeq(hotels_file, LAMBDA line : Hotel_from_dict(line).is_none)
        \o [i \in 1..Len(hotels) |-> Hotel_to_dict(hotels[i])]

\* the file written for a list of entities: one mapping per entity
save_hotels(hotels) == [i \in 1..Len(hotels) |-> Hotel_to_dict(hotels[i])]

save_customers(customers) ==
    [i \in 1..Len(customers) |-> Customer_to_dict(customers[i])]

\* a slip: the lines other writers stored are kept in front of the records
save_reservations_keeping_lines(reservations) ==
    SelectSeq(reservations_file,
              LAMBDA line :
                  \A i \in 1..Len(reservations) :
                      reservations[i].reservation_id # line.reservation_id)
        \o [i \in 1..Len(reservations) |-> Reservation_to_dict(reservations[i])]

\* a slip: the cancelled reservations are not written
save_reservations_active_only(reservations) ==
    LET kept == SelectSeq(reservations,
                          LAMBDA r : r.status = JStr("active"))
    IN  [i \in 1..Len(kept) |-> Reservation_to_dict(kept[i])]

save_reservations(reservations) ==
    [i \in 1..Len(reservations) |-> Reservation_to_dict(reservations[i])]

MaxIds(prefix) ==
    CASE prefix = "HOT" -> MaxHotels
      [] prefix = "CUS" -> MaxCustomers
      [] prefix = "RES" -> MaxReservations

\* identifiers _generate_id can return for a prefix
generate_id(prefix) ==
    {JStr(prefix \o "-" \o ToString(n)) : n \in 1..MaxIds(prefix)}

\* uuid4 does not repeat a value: the identifiers still to be produced.  They
\* are interchangeable (identifiers are only compared for equality), so the
\* one with the least suffix stands for all of them.
fresh_id(prefix) ==
    LET unused == {n \in 1..MaxIds(prefix) :
                      JStr(prefix \o "-" \o ToString(n)) \notin issued}
    IN  {JStr(prefix \o "-" \o ToString(n)) :
            n \in {m \in unused : \A k \in unused : m <= k}}

\* the identifier a call draws; JNull once MaxIds(prefix) identifiers were
\* drawn: from then on only the calls that store no new record are taken
next_id(prefix) ==
    IF fresh_id(prefix) = {} THEN {JNull} ELSE fresh_id(prefix)

\* position of the first element of a list satisfying a test, 0 when none
FirstIndex(seq, Test(_)) ==
    IF \E i \in 1..Len(seq) : Test(seq[i])
    THEN CHOOSE i \in 1..Len(seq) :
            Test(seq[i]) /\ \A j \in 1..(i - 1) : ~Test(seq[j])
    ELSE 0

Outcome(o, v) == [outcome |-> o, value |-> v]

-----------------------------------------------------------------------------
(* Public operations of HotelSystem.  `id` is the value _generate_id       *)
(* returned inside the call.                                               *)

create_hotel(id, name, location, total_rooms, amenities) ==
    LET hotel == [hotel_id |-> id, name |-> name, location |-> location,
                  total_rooms |-> total_rooms, available_rooms |-> total_rooms,
                  amenities |-> IF py_truthy(amenities) THEN amenities
                                ELSE JList(<<>>)]
        validated == Hotel_from_dict(Hotel_to_dict(hotel))
    IN  IF validated.is_none
        THEN /\ ret' = Outcome("fail", JNull)
             /\ UNCHANGED <<files, issued>>
        ELSE /\ id # JNull
             /\ hotels_file' =
                   save_hotels(Append(load_hotels(hotels_file), validated.value))
             /\ issued' = issued \cup {id}
             /\ ret' = Outcome("ok", validated.value)
             /\ UNCHANGED <<customers_file, reservations_file>>

create_customer(id, full_name, email, phone) ==
    LET customer == [customer_id |-> id, full_name |-> full_name,
                     email |-> email, phone |-> phone]
        validated == Customer_from_dict(Customer_to_dict(customer))
    IN  IF validated.is_none
        THEN /\ ret' = Outcome("fail", JNull)
             /\ UNCHANGED <<files, issued>>
        ELSE /\ id # JNull
             /\ customers_file' =
                   save_customers(
                       Append(load_customers(customers_file), validated.value))
             /\ issued' = issued \cup {id}
             /\ ret' = Outcome("ok", validated.value)
             /\ UNCHANGED <<hotels_file, reservations_file>>

\* a slip: a cancelled reservation blocks the deletion too
hotel_has_any_reservation(reservations, hotel_id) ==
    \E i \in 1..Len(reservations) : reservations[i].hotel_id = hotel_id

\* a slip: the guard is missing
hotel_has_active_reservation_never(reservations, hotel_id) == FALSE

\* the guard of delete_hotel: an active reservation references the hotel
hotel_has_active_reservation(reservations, hotel_id) ==
    \E i \in 1..Len(reservations) :
        /\ reservations[i].hotel_id = hotel_id
        /\ reservations[i].status = JStr("active")

\* a slip: the remaining hotels are saved before the guard is tested
delete_hotel_save_first(hotel_id) ==
    LET reservations == load_reservations(reservations_file)
        hotels == load_hotels(hotels_file)
        remaining == SelectSeq(hotels, LAMBDA hotel : hotel.hotel_id # hotel_id)
    IN  /\ hotels_file' = save_hotels(remaining)
        /\ ret' = IF hotel_has_active_reservation(reservations, hotel_id)
                     \/ Len(remaining) = Len(hotels)
                  THEN Outcome("fail", JNull) ELSE Outcome("ok", JNull)
        /\ UNCHANGED <<customers_file, reservations_file, issued>>

delete_hotel(hotel_id) ==
    LET reservations == load_reservations(reservations_file)
        hotels == load_hotels(hotels_file)
        remaining == SelectSeq(hotels, LAMBDA hotel : hotel.hotel_id # hotel_id)
    IN  IF hotel_has_active_reservation(reservations, hotel_id)
        THEN /\ ret' = Outcome("fail", JNull)
             /\ UNCHANGED <<files, issued>>
        ELSE IF Len(remaining) = Len(hotels)
        THEN /\ ret' = Outcome("fail", JNull)
             /\ UNCHANGED <<files, issued>>
        ELSE /\ hotels_file' = save_hotels(remaining)
             /\ ret' = Outcome("ok", JNull)
             /\ UNCHANGED <<customers_file, reservations_file, issued>>

\* the value display_hotel_information returns: None when not found
hotel_information(hotel_id) ==
    LET hotels == load_hotels(hotels_file)
        i == FirstIndex(hotels, LAMBDA hotel : hotel.hotel_id = hotel_id)
    IN  IF i = 0 THEN None ELSE Some(Hotel_to_dict(hotels[i]))

display_hotel_information(hotel_id) ==
    LET found == hotel_information(hotel_id)
    IN  /\ ret' = IF found.is_none THEN Outcome("fail", JNull)
                  ELSE Outcome("ok", JNull)
        /\ UNCHANGED <<files, issued>>

modify_hotel_information(hotel_id, changes) ==
    LET hotels == load_hotels(hotels_file)
        i == FirstIndex(hotels, LAMBDA hotel : hotel.hotel_id = hotel_id)
        hotel == hotels[i]
        name == IF "name" \in DOMAIN changes
                THEN py_str(changes.name) ELSE hotel.name
        location == IF "location" \in DOMAIN changes
                    THEN py_str(changes.location) ELSE hotel.location
        amenities == IF "amenities" \in DOMAIN changes
                     THEN py_list(changes.amenities)
                     ELSE Returned(hotel.amenities)
        total_rooms == IF "total_rooms" \in DOMAIN changes
                       THEN py_int(changes.total_rooms)
                       ELSE Returned(hotel.total_rooms)
        available_rooms == IF "available_rooms" \in DOMAIN changes
                           THEN py_int(changes.available_rooms)
                           ELSE Returned(hotel.available_rooms)
        modified == [hotel_id |-> hotel.hotel_id, name |-> name,
                     location |-> location, total_rooms |-> total_rooms.val,
                     available_rooms |-> available_rooms.val,
                     amenities |-> amenities.val]
        validated == Hotel_from_dict(Hotel_to_dict(modified))
    IN  IF i = 0
        THEN /\ ret' = Outcome("fail", JNull)
             /\ UNCHANGED <<files, issued>>
        ELSE IF amenities.exc # ""
        THEN /\ ret' = Outcome("raise", JStr(amenities.exc))
             /\ UNCHANGED <<files, issued>>
        ELSE IF total_rooms.exc # ""
        THEN /\ ret' = Outcome("raise", JStr(total_rooms.exc))
             /\ UNCHANGED <<files, issued>>
        ELSE IF available_rooms.exc # ""
        THEN /\ ret' = Outcome("raise", JStr(available_rooms.exc))
             /\ UNCHANGED <<files, issued>>
        ELSE IF validated.is_none
        THEN /\ ret' = Outcome("fail", JNull)
             /\ UNCHANGED <<files, issued>>
        ELSE /\ hotels_file' = save_hotels([hotels EXCEPT ![i] = modified])
             /\ ret' = Outcome("ok", JNull)
             /\ UNCHANGED <<customers_file, reservations_file, issued>>

\* a slip: the guard looks at no reservation
customer_has_active_reservation_never(reservations, customer_id) == FALSE

\* the guard of delete_customer: an active reservation references the customer
customer_has_active_reservation(reservations, customer_id) ==
    \E i \in 1..Len(reservations) :
        /\ reservations[i].customer_id = customer_id
        /\ reservations[i].status = JStr("active")

delete_customer(customer_id) ==
    LET reservations == load_reservations(reservations_file)
        customers == load_customers(customers_file)
        remaining == SelectSeq(customers,
                               LAMBDA customer : customer.customer_id # customer_id)
    IN  IF customer_has_active_reservation(reservations, customer_id)
        THEN /\ ret' = Outcome("fail", JNull)
             /\ UNCHANGED <<files, issued>>
        ELSE IF Len(remaining) = Len(customers)
        THEN /\ ret' = Outcome("fail", JNull)
             /\ UNCHANGED <<files, issued>>
        ELSE /\ customers_file' = save_customers(remaining)
             /\ ret' = Outcome("ok", JNull)
             /\ UNCHANGED <<hotels_file, reservations_file, issued>>

\* the value display_customer_information returns: None when not found
customer_information(customer_id) ==
    LET customers == load_customers(customers_file)
        i == FirstIndex(customers,
                        LAMBDA customer : customer.customer_id = customer_id)
    IN  IF i = 0 THEN None ELSE Some(Customer_to_dict(customers[i]))

display_customer_information(customer_id) ==
    LET found == customer_information(customer_id)
    IN  /\ ret' = IF found.is_none THEN Outcome("fail", JNull)
                  ELSE Outcome("ok", JNull)
        /\ UNCHANGED <<files, issued>>

modify_customer_information(customer_id, changes) ==
    LET customers == load_customers(customers_file)
        i == FirstIndex(customers,
                        LAMBDA customer : customer.customer_id = customer_id)
        customer == customers[i]
        modified ==
            [customer_id |-> customer.customer_id,
             full_name |-> IF "full_name" \in DOMAIN changes
                           THEN py_str(changes.full_name) ELSE customer.full_name,
             email |-> IF "email" \in DOMAIN changes
                       THEN py_str(changes.email) ELSE customer.email,
             phone |-> IF "phone" \in DOMAIN changes
                       THEN py_str(changes.phone) ELSE customer.phone]
        validated == Customer_from_dict(Customer_to_dict(modified))
    IN  IF i = 0
        THEN /\ ret' = Outcome("fail", JNull)
             /\ UNCHANGED <<files, issued>>
        ELSE IF validated.is_none
        THEN /\ ret' = Outcome("fail", JNull)
             /\ UNCHANGED <<files, issued>>
        ELSE /\ customers_file' =
                   save_customers([customers EXCEPT ![i] = modified])
             /\ ret' = Outcome("ok", JNull)
             /\ UNCHANGED <<hotels_file, reservations_file, issued>>

\* a slip: a request for exactly the available rooms is refused
insufficient_rooms_or_equal(hotel, room_count) ==
    hotel.available_rooms.val <= room_count.val

\* the availability test of create_reservation
insufficient_rooms(hotel, room_count) ==
    hotel.available_rooms.val < room_count.val

\* a slip: one room is taken, whatever the room_count
rooms_after_reservation_one(hotel, room_count) ==
    JInt(hotel.available_rooms.val - 1)

\* hotel.available_rooms -= room_count
rooms_after_reservation(hotel, room_count) ==
    JInt(hotel.available_rooms.val - room_count.val)

create_reservation(id, customer_id, hotel_id, room_count) ==
    LET customers == load_customers(customers_file)
        hotels == load_hotels(hotels_file)
        reservations == load_reservations(reservations_file)
        c == FirstIndex(customers,
                        LAMBDA current : current.customer_id = customer_id)
        h == FirstIndex(hotels, LAMBDA current : current.hotel_id = hotel_id)
        hotel == [hotels[h] EXCEPT !.available_rooms =
                      rooms_after_reservation(hotels[h], room_count)]
        reservation == [reservation_id |-> id, customer_id |-> customer_id,
                        hotel_id |-> hotel_id, room_count |-> room_count,
                        status |-> JStr("active")]
        validated == Reservation_from_dict(Reservation_to_dict(reservation))
    IN  IF room_count.kind # "int"
        THEN /\ ret' = Outcome("raise", JStr("TypeError"))   \* room_count <= 0
             /\ UNCHANGED <<files, issued>>
        ELSE IF room_count.val <= 0
        THEN /\ ret' = Outcome("fail", JNull)
             /\ UNCHANGED <<files, issued>>
        ELSE IF c = 0
        THEN /\ ret' = Outcome("fail", JNull)
             /\ UNCHANGED <<files, issued>>
        ELSE IF h = 0
        THEN /\ ret' = Outcome("fail", JNull)
             /\ UNCHANGED <<files, issued>>
        ELSE IF insufficient_rooms(hotels[h], room_count)
        THEN /\ ret' = Outcome("fail", JNull)
             /\ UNCHANGED <<files, issued>>
        ELSE IF validated.is_none
        THEN /\ ret' = Outcome("fail", JNull)
             /\ UNCHANGED <<files, issued>>
        ELSE /\ id # JNull
             /\ hotels_file' = save_hotels([hotels EXCEPT ![h] = hotel])
             /\ reservations_file' =
                   save_reservations(Append(reservations, validated.value))
             /\ issued' = issued \cup {id}
             /\ ret' = Outcome("ok", validated.value)
             /\ UNCHANGED customers_file

\* a slip: the arguments are passed on in the order they were received
reserve_room_unswapped(id, hotel_id, customer_id, room_count) ==
    create_reservation(id, hotel_id, customer_id, room_count)

reserve_room(id, hotel_id, customer_id, room_count) ==
    create_reservation(id, customer_id, hotel_id, room_count)

\* a slip: the test for a reservation cancelled before is missing
already_cancelled_never(target) == FALSE

\* the test of cancel_reservation for a reservation cancelled before
already_cancelled(target) == target.status = JStr("cancelled")

\* a slip: the sum is not clamped at total_rooms
rooms_after_cancellation_unclamped(hotel, target) ==
    JInt(hotel.available_rooms.val + target.room_count.val)

\* a slip: one room is released, whatever the reservation's room_count
rooms_after_cancellation_one(hotel, target) ==
    JInt(py_min(hotel.available_rooms.val + 1, hotel.total_rooms.val))

\* available_rooms += room_count, then min(available_rooms, total_rooms)
rooms_after_cancellation(hotel, target) ==
    JInt(py_min(hotel.available_rooms.val + target.room_count.val,
                hotel.total_rooms.val))

cancel_reservation(reservation_id) ==
    LET hotels == load_hotels(hotels_file)
        reservations == load_reservations(reservations_file)
        t == FirstIndex(reservations,
                        LAMBDA reservation :
                            reservation.reservation_id = reservation_id)
        target == reservations[t]
        h == FirstIndex(hotels,
                        LAMBDA current : current.hotel_id = target.hotel_id)
        hotel == [hotels[h] EXCEPT !.available_rooms =
                      rooms_after_cancellation(hotels[h], target)]
    IN  IF t = 0
        THEN /\ ret' = Outcome("fail", JNull)
             /\ UNCHANGED <<files, issued>>
        ELSE IF already_cancelled(target)
        THEN /\ ret' = Outcome("fail", JNull)
             /\ UNCHANGED <<files, issued>>
        ELSE IF h = 0
        THEN /\ ret' = Outcome("fail", JNull)
             /\ UNCHANGED <<files, issued>>
        ELSE /\ hotels_file' = save_hotels([hotels EXCEPT ![h] = hotel])
             /\ reservations_file' =
                   save_reservations(
                       [reservations EXCEPT ![t].status = JStr("cancelled")])
             /\ ret' = Outcome("ok", JNull)
             /\ UNCHANGED <<customers_file, issued>>

\* a slip: the name is the one of the first stored customer
reservation_information_first_customer(reservation_id) ==
    LET customers == load_customers(customers_file)
        reservations == load_reservations(reservations_file)
        r == FirstIndex(reservations,
                        LAMBDA reservation :
                            reservation.reservation_id = reservation_id)
    IN  IF r = 0 THEN None
        ELSE Some([payload |-> Reservation_to_dict(reservations[r]),
                   customer_name |->
                       IF customers = <<>> THEN JStr("Cliente no encontrado")
                       ELSE customers[1].full_name])

\* the value display_reservation_information returns: None when not found
reservation_information(reservation_id) ==
    LET customers == load_customers(customers_file)
        reservations == load_reservations(reservations_file)
        r == FirstIndex(reservations,
                        LAMBDA reservation :
                            reservation.reservation_id = reservation_id)
        \* a dict comprehension keeps the last customer of each id
        c == IF r = 0 THEN 0
             ELSE FirstIndex(customers,
                    LAMBDA customer :
                        customer.customer_id = reservations[r].customer_id)
        last == IF c = 0 THEN 0
                ELSE CHOOSE j \in 1..Len(customers) :
                        /\ customers[j].customer_id = reservations[r].customer_id
                        /\ \A k \in (j + 1)..Len(customers) :
                              customers[k].customer_id
                                  # reservations[r].customer_id
    IN  IF r = 0 THEN None
        ELSE Some([payload |-> Reservation_to_dict(reservations[r]),
                   customer_name |->
                       IF last = 0 THEN JStr("Cliente no encontrado")
                       ELSE customers[last].full_name])

display_reservation_information(reservation_id) ==
    LET found == reservation_information(reservation_id)
    IN  /\ ret' = IF found.is_none THEN Outcome("fail", JNull)
                  ELSE Outcome("ok", JNull)
        /\ UNCHANGED <<files, issued>>

\* a slip: the cancelled reservations are left out
reservations_by_name_active_only(customer_name) ==
    LET normalized_name == py_lower(py_strip(customer_name.val))
        customers == load_customers(customers_file)
        reservations == load_reservations(reservations_file)
        Matches(customer) ==
            py_contains(normalized_name,
                        py_lower(py_strip(customer.full_name.val)))
        \* a dict comprehension keeps the last matching customer of each id
        NameOf(customer_id) ==
            LET j == CHOOSE j \in 1..Len(customers) :
                        /\ customers[j].customer_id = customer_id
                        /\ Matches(customers[j])
                        /\ \A k \in (j + 1)..Len(customers) :
                              ~(customers[k].customer_id = customer_id
                                    /\ Matches(customers[k]))
            IN  customers[j].full_name
        matching == SelectSeq(reservations,
                       LAMBDA reservation :
                           /\ reservation.status = JStr("active")
                           /\ \E j \in 1..Len(customers) :
                               /\ customers[j].customer_id
                                     = reservation.customer_id
                               /\ Matches(customers[j]))
    IN  IF normalized_name = "" THEN <<>>
        ELSE [i \in 1..Len(matching) |->
                [payload |-> Reservation_to_dict(matching[i]),
                 customer_name |-> NameOf(matching[i].customer_id)]]

\* the list search_reservations_by_name returns
reservations_by_name(customer_name) ==
    LET normalized_name == py_lower(py_strip(customer_name.val))
        customers == load_customers(customers_file)
        reservations == load_reservations(reservations_file)
        Matches(customer) ==
            py_contains(normalized_name,
                        py_lower(py_strip(customer.full_name.val)))
        \* a dict comprehension keeps the last matching customer of each id
        NameOf(customer_id) ==
            LET j == CHOOSE j \in 1..Len(customers) :
                        /\ customers[j].customer_id = customer_id
                        /\ Matches(customers[j])
                        /\ \A k \in (j + 1)..Len(customers) :
                              ~(customers[k].customer_id = customer_id
                                    /\ Matches(customers[k]))
            IN  customers[j].full_name
        matching == SelectSeq(reservations,
                       LAMBDA reservation :
                           \E j \in 1..Len(customers) :
                               /\ customers[j].customer_id
                                     = reservation.customer_id
                               /\ Matches(customers[j]))
    IN  IF normalized_name = "" THEN <<>>
        ELSE [i \in 1..Len(matching) |->
                [payload |-> Reservation_to_dict(matching[i]),
                 customer_name |-> NameOf(matching[i].customer_id)]]

search_reservations_by_name(customer_name) ==
    LET results == reservations_by_name(customer_name)
    IN  /\ ret' = IF results = <<>> THEN Outcome("fail", JNull)
                  ELSE Outcome("ok", JNull)
        /\ UNCHANGED <<files, issued>>

-----------------------------------------------------------------------------
(* Arguments the callers pass. *)

NameArgs == {JStr("Hotel Centro")}
LocationArgs == {JStr("Monterrey")}
AmenitiesArgs == {JNull, JInt(5)}
RoomArgs == {JInt(0 - 1), JInt(MaxRooms), JStr("abc")}
RoomCountArgs == {JInt(n) : n \in 0..MaxRooms} \cup {JStr("abc")}
FullNameArgs == {JStr("Ana Perez"), JStr(" ")}
EmailArgs == {JStr("ana@example.com"), JStr("ana.example.com")}
PhoneArgs == {JStr("8111111111")}
HotelIdArgs == generate_id("HOT")
CustomerIdArgs == generate_id("CUS")
ReservationIdArgs == generate_id("RES")
SearchArgs == {JStr("ana"), JStr(" ")}

\* keyword arguments: every mapping from a set of keys to one of their values
Kwargs(values) ==
    UNION {{f \in [keys -> UNION {values[k] : k \in keys}] :
                \A k \in keys : f[k] \in values[k]} :
           keys \in SUBSET DOMAIN values}

HotelChangesArgs ==
    {[total_rooms |-> JInt(1)],
     [available_rooms |-> JInt(MaxRooms)],
     [total_rooms |-> JInt(0 - 1)],
     [total_rooms |-> JStr("abc")]}

CustomerChangesArgs ==
    Kwargs([full_name |-> {JStr(" ")}, email |-> EmailArgs])

-----------------------------------------------------------------------------

\* the manager instances (processes) that can run a call step by step
Managers == {"m1", "m2"}

\* a manager with no call in progress
Idle == [pc |-> "idle"]

Init ==
    /\ hotels_file = <<>>
    /\ customers_file = <<>>
    /\ reservations_file = <<>>
    /\ issued = {}
    /\ call = "init"
    /\ managers = [m \in Managers |-> Idle]
    /\ arg = JNull
    /\ result = JNull
    /\ hotels_before = <<>>
    /\ ret = Outcome("ok", JNull)

CreateHotel ==
    /\ call' = "create_hotel"
    /\ UNCHANGED <<managers, arg, result>>
    /\ hotels_before' = <<>>
    /\ \E id \in next_id("HOT"), name \in NameArgs,
          location \in LocationArgs, total_rooms \in RoomArgs,
          amenities \in AmenitiesArgs :
           create_hotel(id, name, location, total_rooms, amenities)

DeleteHotel ==
    /\ call' = "delete_hotel"
    /\ UNCHANGED <<managers, arg, result>>
    /\ hotels_before' = <<>>
    /\ \E hotel_id \in HotelIdArgs : delete_hotel(hotel_id)

DisplayHotelInformation ==
    /\ call' = "display_hotel_information"
    /\ UNCHANGED <<managers, arg, result>>
    /\ hotels_before' = <<>>
    /\ \E hotel_id \in HotelIdArgs : display_hotel_information(hotel_id)

ModifyHotelInformation ==
    /\ call' = "modify_hotel_information"
    /\ UNCHANGED <<managers, arg, result>>
    /\ hotels_before' = <<>>
    /\ \E hotel_id \in HotelIdArgs, changes \in HotelChangesArgs :
           modify_hotel_information(hotel_id, changes)

CreateCustomer ==
    /\ call' = "create_customer"
    /\ UNCHANGED <<managers, arg, result>>
    /\ hotels_before' = <<>>
    /\ \E id \in next_id("CUS"), full_name \in FullNameArgs,
          email \in EmailArgs, phone \in PhoneArgs :
           create_customer(id, full_name, email, phone)

DeleteCustomer ==
    /\ call' = "delete_customer"
    /\ UNCHANGED <<managers, arg, result>>
    /\ hotels_before' = <<>>
    /\ \E customer_id \in CustomerIdArgs : delete_customer(customer_id)

DisplayCustomerInformation ==
    /\ call' = "display_customer_information"
    /\ UNCHANGED <<managers, arg, result>>
    /\ hotels_before' = <<>>
    /\ \E customer_id \in CustomerIdArgs :
           display_customer_information(customer_id)

ModifyCustomerInformation ==
    /\ call' = "modify_customer_information"
    /\ UNCHANGED <<managers, arg, result>>
    /\ hotels_before' = <<>>
    /\ \E customer_id \in CustomerIdArgs, changes \in CustomerChangesArgs :
           modify_customer_information(customer_id, changes)

CreateReservation ==
    /\ call' = "create_reservation"
    /\ UNCHANGED <<managers, arg, result>>
    /\ hotels_before' = hotels_file
    /\ \E id \in next_id("RES"), customer_id \in CustomerIdArgs,
          hotel_id \in HotelIdArgs, room_count \in RoomCountArgs :
           create_reservation(id, customer_id, hotel_id, room_count)

ReserveRoom ==
    /\ call' = "reserve_room"
    /\ UNCHANGED <<managers, arg, result>>
    /\ hotels_before' = hotels_file
    /\ \E id \in next_id("RES"), customer_id \in CustomerIdArgs,
          hotel_id \in HotelIdArgs, room_count \in {JInt(1)} :
           reserve_room(id, hotel_id, customer_id, room_count)

CancelReservation ==
    /\ call' = "cancel_reservation"
    /\ UNCHANGED <<managers, arg, result>>
    /\ \E reservation_id \in ReservationIdArgs :
           /\ cancel_reservation(reservation_id)
           /\ hotels_before' =
                 IF /\ call \in {"create_reservation", "reserve_room"}
                    /\ ret.outcome = "ok"
                    /\ ret.value.reservation_id = reservation_id
                 THEN hotels_before ELSE <<>>

DisplayReservationInformation ==
    /\ call' = "display_reservation_information"
    /\ UNCHANGED <<managers, arg, result>>
    /\ hotels_before' = <<>>
    /\ \E reservation_id \in ReservationIdArgs :
           display_reservation_information(reservation_id)

SearchReservationsByName ==
    /\ call' = "search_reservations_by_name"
    /\ UNCHANGED <<managers, arg, result>>
    /\ hotels_before' = <<>>
    /\ \E customer_name \in SearchArgs :
           search_reservations_by_name(customer_name)

Next ==
    \/ CreateHotel
    \/ DeleteHotel
    \/ DisplayHotelInformation
    \/ ModifyHotelInformation
    \/ CreateCustomer
    \/ DeleteCustomer
    \/ DisplayCustomerInformation
    \/ ModifyCustomerInformation
    \/ CreateReservation
    \/ ReserveRoom
    \/ CancelReservation
    \/ DisplayReservationInformation
    \/ SearchReservationsByName

Spec == Init /\ [][Next]_vars

-----------------------------------------------------------------------------
(* The hotel records in detail: the same operations on hotels, called with *)
(* several names, locations and amenities and with partial changes of      *)
(* every field.                                                            *)

DetailedHotelChangesArgs ==
    {[name |-> JStr("Hotel Norte Plus")],
     [total_rooms |-> JInt(1)],
     [total_rooms |-> JInt(0 - 1)],
     [available_rooms |-> JInt(0)],
     [available_rooms |-> JInt(MaxRooms)],
     [name |-> JStr("Hotel Norte Plus"), total_rooms |-> JInt(1),
      available_rooms |-> JInt(1)],
     [location |-> JStr("Leon"), amenities |-> JList(<<"wifi">>)],
     [total_rooms |-> JStr("1"), stars |-> JInt(3)],
     [available_rooms |-> JStr("abc")],
     [location |-> JStr("Leon"), amenities |-> JNull]}

DetailedRoomArgs == {JInt(0 - 1), JInt(0), JInt(MaxRooms)}
DetailedAmenitiesArgs == {JList(<<"gym">>)}

CreateHotelDetailed ==
    /\ call' = "create_hotel"
    /\ UNCHANGED <<managers, arg, result>>
    /\ hotels_before' = <<>>
    /\ \E id \in next_id("HOT"), total_rooms \in DetailedRoomArgs,
          amenities \in DetailedAmenitiesArgs :
           create_hotel(id, JStr("Hotel Norte"), JStr("Saltillo"), total_rooms,
                        amenities)

ModifyHotelDetailed ==
    /\ call' = "modify_hotel_information"
    /\ UNCHANGED <<managers, arg, result>>
    /\ hotels_before' = <<>>
    /\ \E hotel_id \in HotelIdArgs, changes \in DetailedHotelChangesArgs :
           modify_hotel_information(hotel_id, changes)

NextHotels ==
    \/ CreateHotelDetailed
    \/ ModifyHotelDetailed
    \/ DisplayHotelInformation

SpecHotels == Init /\ [][NextHotels]_vars

-----------------------------------------------------------------------------
(* Properties. *)

\* the stored records with a given identifier
HotelsWithId(hotel_id) ==
    {i \in 1..Len(hotels_file) : hotels_file[i].hotel_id = hotel_id}

CustomersWithId(customer_id) ==
    {i \in 1..Len(customers_file) :
        customers_file[i].customer_id = customer_id}

ReservationsWithId(reservation_id) ==
    {i \in 1..Len(reservations_file) :
        reservations_file[i].reservation_id = reservation_id}

\* C1: every stored hotel has 0 <= available_rooms <= total_rooms, after
\* creation and after any sequence of operations.
C1_RoomsWithinTotal ==
    \A i \in 1..Len(hotels_file) :
        /\ 0 <= hotels_file[i].available_rooms.val
        /\ hotels_file[i].available_rooms.val <= hotels_file[i].total_rooms.val

\* a cancellation has released rooms of a hotel that is full again, next to
\* a hotel that still has rooms reserved
C1_Witness ==
    /\ call = "cancel_reservation"
    /\ ret.outcome = "ok"
    /\ \E i, j \in 1..Len(hotels_file) :
          /\ hotels_file[i].total_rooms.val > 0
          /\ hotels_file[i].available_rooms = hotels_file[i].total_rooms
          /\ hotels_file[j].available_rooms.val < hotels_file[j].total_rooms.val

\* the precondition of create_reservation, read from the stored files
C2_Pre(customer_id, hotel_id, room_count) ==
    /\ room_count.kind = "int"
    /\ room_count.val > 0
    /\ CustomersWithId(customer_id) # {}
    /\ \E j \in HotelsWithId(hotel_id) :
          hotels_file[j].available_rooms.val >= room_count.val

\* the effect of a successful create_reservation on the stored files
C2_Post(id, customer_id, hotel_id, room_count) ==
    /\ Len(hotels_file') = Len(hotels_file)
    /\ \A j \in 1..Len(hotels_file) :
          hotels_file'[j] =
              IF hotels_file[j].hotel_id = hotel_id
              THEN [hotels_file[j] EXCEPT !.available_rooms =
                        JInt(@.val - room_count.val)]
              ELSE hotels_file[j]
    /\ reservations_file' =
          Append(reservations_file,
                 [reservation_id |-> id, customer_id |-> customer_id,
                  hotel_id |-> hotel_id, room_count |-> room_count,
                  status |-> JStr("active")])
    /\ customers_file' = customers_file

\* C2: create_reservation succeeds exactly when room_count > 0, the customer
\* exists, the hotel exists and has at least room_count rooms available; on
\* success that hotel loses exactly room_count available rooms and exactly
\* one active reservation with the given fields is appended.
C2_CreateReservation ==
    [][call' = "create_reservation" =>
        \A id \in ReservationIdArgs, customer_id \in CustomerIdArgs,
           hotel_id \in HotelIdArgs, room_count \in RoomCountArgs :
            create_reservation(id, customer_id, hotel_id, room_count) =>
                /\ (ret'.outcome = "ok")
                      <=> C2_Pre(customer_id, hotel_id, room_count)
                /\ ret'.outcome = "ok" =>
                      C2_Post(id, customer_id, hotel_id, room_count)]_vars

\* a reservation of one room of a hotel of MaxRooms rooms has just succeeded
C2_Witness ==
    /\ call = "create_reservation"
    /\ ret.outcome = "ok"
    /\ ret.value.room_count = JInt(1)
    /\ \E j \in HotelsWithId(ret.value.hotel_id) :
          /\ hotels_file[j].total_rooms = JInt(MaxRooms)
          /\ hotels_file[j].available_rooms = JInt(MaxRooms - 1)

\* C3: an operation that returns a failure leaves the three files as they
\* were; a create_reservation that fails creates no reservation and leaves
\* available_rooms unchanged.
C3_FailureChangesNothing ==
    [][ret'.outcome = "fail" =>
        /\ hotels_file' = hotels_file
        /\ customers_file' = customers_file
        /\ reservations_file' = reservations_file]_vars

\* a create_reservation has failed while every hotel and a customer exist
\* and no hotel has a room available
C3_Witness ==
    /\ call = "create_reservation"
    /\ ret.outcome = "fail"
    /\ customers_file # <<>>
    /\ Len(hotels_file) = MaxHotels
    /\ \A j \in 1..Len(hotels_file) :
          /\ hotels_file[j].total_rooms.val > 0
          /\ hotels_file[j].available_rooms.val = 0

\* the precondition of cancel_reservation: the reservation exists, is active
\* and its hotel exists
C4_Pre(reservation_id) ==
    \E t \in ReservationsWithId(reservation_id) :
        /\ reservations_file[t].status = JStr("active")
        /\ HotelsWithId(reservations_file[t].hotel_id) # {}

\* the effect of a successful cancel_reservation on the stored files
C4_Post(reservation_id) ==
    LET t == CHOOSE t \in ReservationsWithId(reservation_id) : TRUE
        target == reservations_file[t]
    IN  /\ Len(reservations_file') = Len(reservations_file)
        /\ \A i \in 1..Len(reservations_file) :
              reservations_file'[i] =
                  IF i = t
                  THEN [target EXCEPT !.status = JStr("cancelled")]
                  ELSE reservations_file[i]
        /\ Len(hotels_file') = Len(hotels_file)
        /\ \A j \in 1..Len(hotels_file) :
              hotels_file'[j] =
                  IF hotels_file[j].hotel_id = target.hotel_id
                  THEN [hotels_file[j] EXCEPT !.available_rooms =
                          IF @.val + target.room_count.val
                                > hotels_file[j].total_rooms.val
                          THEN hotels_file[j].total_rooms
                          ELSE JInt(@.val + target.room_count.val)]
                  ELSE hotels_file[j]
        /\ customers_file' = customers_file

\* C4: cancel_reservation on an existing active reservation whose hotel
\* exists sets its status to cancelled and the hotel's available_rooms to
\* min(available_rooms + room_count, total_rooms); no other reservation and
\* no other hotel changes.
C4_CancelReservation ==
    [][call' = "cancel_reservation" =>
        \A reservation_id \in ReservationIdArgs :
            (cancel_reservation(reservation_id) /\ C4_Pre(reservation_id)) =>
                /\ ret'.outcome = "ok"
                /\ C4_Post(reservation_id)]_vars

\* a cancellation has succeeded while another reservation stays active and
\* two hotels are stored
C4_Witness ==
    /\ call = "cancel_reservation"
    /\ ret.outcome = "ok"
    /\ Len(hotels_file) = 2
    /\ \E s, t \in 1..Len(reservations_file) :
          /\ reservations_file[s].status = JStr("cancelled")
          /\ reservations_file[t].status = JStr("active")
          /\ reservations_file[s].hotel_id # reservations_file[t].hotel_id

\* the reservation does not exist, or was cancelled before
C5_Pre(reservation_id) ==
    \/ ReservationsWithId(reservation_id) = {}
    \/ \E t \in ReservationsWithId(reservation_id) :
          reservations_file[t].status = JStr("cancelled")

\* C5: cancelling a reservation that is already cancelled, or whose
\* identifier does not exist, fails and leaves every stored record (so the
\* hotel's available_rooms) unchanged: repeated cancellations of one
\* identifier release its rooms at most once.
C5_CancelOnlyOnce ==
    [][call' = "cancel_reservation" =>
        \A reservation_id \in ReservationIdArgs :
            (cancel_reservation(reservation_id) /\ C5_Pre(reservation_id)) =>
                /\ ret'.outcome = "fail"
                /\ hotels_file' = hotels_file
                /\ customers_file' = customers_file
                /\ reservations_file' = reservations_file]_vars

\* a cancellation has failed while every reservation identifier is stored,
\* so the reservation was cancelled before; its hotel is stored and still has
\* rooms taken by the other reservation, which is active
C5_Witness ==
    /\ call = "cancel_reservation"
    /\ ret.outcome = "fail"
    /\ Len(reservations_file) = MaxReservations
    /\ \E s, t \in 1..Len(reservations_file) :
          /\ reservations_file[s].status = JStr("cancelled")
          /\ reservations_file[t].status = JStr("active")
          /\ reservations_file[s].hotel_id = reservations_file[t].hotel_id
          /\ \E j \in HotelsWithId(reservations_file[s].hotel_id) :
                hotels_file[j].available_rooms.val
                    < hotels_file[j].total_rooms.val

\* an active reservation references the hotel
C6_Blocked(hotel_id) ==
    \E t \in 1..Len(reservations_file) :
        /\ reservations_file[t].hotel_id = hotel_id
        /\ reservations_file[t].status = JStr("active")

\* C6: delete_hotel fails, leaving the hotels unchanged, when an active
\* reservation references the hotel or no hotel has the identifier; for an
\* existing hotel whose reservations are all cancelled it succeeds, and then
\* display_hotel_information finds nothing and every other hotel is stored
\* unchanged.
C6_DeleteHotel ==
    [][call' = "delete_hotel" =>
        \A hotel_id \in HotelIdArgs :
            delete_hotel(hotel_id) =>
                IF C6_Blocked(hotel_id) \/ HotelsWithId(hotel_id) = {}
                THEN /\ ret'.outcome = "fail"
                     /\ hotels_file' = hotels_file
                ELSE /\ ret'.outcome = "ok"
                     /\ hotel_information(hotel_id)' = None
                     /\ hotels_file' =
                           SelectSeq(hotels_file,
                               LAMBDA line : line.hotel_id # hotel_id)
                     /\ customers_file' = customers_file
                     /\ reservations_file' = reservations_file]_vars

\* a hotel whose only reservations are cancelled has been deleted, and
\* another hotel is still stored
C6_Witness ==
    /\ call = "delete_hotel"
    /\ ret.outcome = "ok"
    /\ hotels_file # <<>>
    /\ \E t \in 1..Len(reservations_file) :
          /\ reservations_file[t].status = JStr("cancelled")
          /\ HotelsWithId(reservations_file[t].hotel_id) = {}

\* an active reservation references the customer
C7_Blocked(customer_id) ==
    \E t \in 1..Len(reservations_file) :
        /\ reservations_file[t].customer_id = customer_id
        /\ reservations_file[t].status = JStr("active")

\* C7: delete_customer fails, leaving the customers unchanged, when an active
\* reservation references the customer or no customer has the identifier;
\* for an existing customer whose reservations are all cancelled it succeeds.
C7_DeleteCustomer ==
    [][call' = "delete_customer" =>
        \A customer_id \in CustomerIdArgs :
            delete_customer(customer_id) =>
                IF C7_Blocked(customer_id) \/ CustomersWithId(customer_id) = {}
                THEN /\ ret'.outcome = "fail"
                     /\ customers_file' = customers_file
                ELSE /\ ret'.outcome = "ok"
                     /\ customers_file' =
                           SelectSeq(customers_file,
                               LAMBDA line : line.customer_id # customer_id)]_vars

\* a delete_customer has been refused while the customer has one active and
\* one cancelled reservation
C7_Witness ==
    /\ call = "delete_customer"
    /\ ret.outcome = "fail"
    /\ customers_file # <<>>
    /\ \E s, t \in 1..Len(reservations_file) :
          /\ reservations_file[s].status = JStr("active")
          /\ reservations_file[t].status = JStr("cancelled")
          /\ CustomersWithId(reservations_file[s].customer_id) # {}

\* C8: when a reservation is created and then cancelled by the next call,
\* the cancellation succeeds and the hotel's available_rooms is again what
\* it was before the reservation (which is at most total_rooms).
C8_ReserveThenCancelRestores ==
    (call = "cancel_reservation" /\ hotels_before # <<>>) =>
        /\ ret.outcome = "ok"
        /\ Len(hotels_file) = Len(hotels_before)
        /\ \A j \in 1..Len(hotels_file) :
              /\ hotels_file[j].hotel_id = hotels_before[j].hotel_id
              /\ hotels_file[j].available_rooms.val =
                    IF hotels_before[j].available_rooms.val
                          > hotels_before[j].total_rooms.val
                    THEN hotels_before[j].total_rooms.val
                    ELSE hotels_before[j].available_rooms.val

\* a reservation of MaxRooms rooms has been created and then cancelled, and
\* the hotel has its MaxRooms rooms available again
C8_Witness ==
    /\ call = "cancel_reservation"
    /\ hotels_before # <<>>
    /\ \E t \in 1..Len(reservations_file) :
          /\ reservations_file[t].room_count = JInt(MaxRooms)
          /\ reservations_file[t].status = JStr("cancelled")
          /\ \E j \in HotelsWithId(reservations_file[t].hotel_id) :
                /\ hotels_before[j].available_rooms = JInt(MaxRooms)
                /\ hotels_file[j].available_rooms = JInt(MaxRooms)

\* C9: no exception escapes a public operation: a violated precondition or
\* invariant, also with a wrong-typed or unparsable argument, is returned as
\* a failure.
C9_NoExceptionEscapes == ret.outcome # "raise"

\* the fields modify_hotel_information can change
HotelFields == {"name", "location", "amenities", "total_rooms", "available_rooms"}

\* the values of the named fields have the types of the fields
C10_WellTyped(changes) ==
    \A f \in DOMAIN changes \cap HotelFields :
        changes[f].kind = CASE f \in {"name", "location"} -> "str"
                            [] f = "amenities" -> "list"
                            [] f \in {"total_rooms", "available_rooms"} -> "int"

\* a stored hotel with exactly the named fields replaced
C10_Applied(line, changes) ==
    [f \in DOMAIN line |->
        IF f \in DOMAIN changes \cap HotelFields THEN changes[f] ELSE line[f]]

\* negative rooms, or more rooms available than the hotel has
C10_Invalid(line) ==
    \/ line.total_rooms.val < 0
    \/ line.available_rooms.val < 0
    \/ line.available_rooms.val > line.total_rooms.val

\* C10: modify_hotel_information on an existing hotel changes exactly the
\* fields named in the changes, leaves the other fields, the hotel_id and
\* every other hotel unchanged and validates the whole resulting record; when
\* the identifier is not found or the resulting record is invalid (negative
\* rooms, available_rooms > total_rooms) it fails and nothing is written.
C10_ModifyHotel ==
    [][call' = "modify_hotel_information" =>
        \A hotel_id \in HotelIdArgs, changes \in DetailedHotelChangesArgs :
            modify_hotel_information(hotel_id, changes) =>
                LET j == CHOOSE j \in HotelsWithId(hotel_id) : TRUE
                    wanted == C10_Applied(hotels_file[j], changes)
                IN  /\ HotelsWithId(hotel_id) = {} =>
                          ret'.outcome = "fail"
                    /\ ret'.outcome # "ok" =>
                          /\ hotels_file' = hotels_file
                          /\ customers_file' = customers_file
                          /\ reservations_file' = reservations_file
                    /\ ret'.outcome = "ok" =>
                          /\ Len(hotels_file') = Len(hotels_file)
                          /\ \A i \in 1..Len(hotels_file) :
                                i # j => hotels_file'[i] = hotels_file[i]
                          /\ hotels_file'[j].hotel_id = hotel_id
                          /\ \A f \in HotelFields \ DOMAIN changes :
                                hotels_file'[j][f] = hotels_file[j][f]
                          /\ customers_file' = customers_file
                          /\ reservations_file' = reservations_file
                    /\ (HotelsWithId(hotel_id) # {} /\ C10_WellTyped(changes)) =>
                          IF C10_Invalid(wanted)
                          THEN ret'.outcome = "fail"
                          ELSE /\ ret'.outcome = "ok"
                               /\ hotels_file'[j] = wanted]_vars

\* a modification of the name alone has succeeded: the hotel keeps its
\* location and rooms, and the other hotel its name
C10_Witness ==
    /\ call = "modify_hotel_information"
    /\ ret.outcome = "ok"
    /\ \E i, j \in 1..Len(hotels_file) :
          /\ hotels_file[i].name = JStr("Hotel Norte Plus")
          /\ hotels_file[i].location = JStr("Saltillo")
          /\ hotels_file[i].total_rooms = JInt(MaxRooms)
          /\ hotels_file[j].name = JStr("Hotel Norte")

-----------------------------------------------------------------------------
(* The customer records in detail: the customer operations called with     *)
(* several names, e-mail addresses and telephones, valid and invalid.      *)

DetailedFullNameArgs == {JStr("Ana Perez"), JStr(""), JStr(" \t"), JInt(5)}
DetailedEmailArgs == {JStr("ana@example.com"), JStr("ana.example.com"), JInt(5)}
DetailedPhoneArgs == {JStr("8111111111"), JInt(55)}

DetailedCustomerChangesArgs ==
    Kwargs([full_name |-> {JStr("Bo"), JStr("Eva Luna"), JStr(" \t"), JInt(5)},
            email |-> {JStr("bo@x.mx"), JStr("@"), JStr("bo.x.mx")},
            phone |-> {JStr("55"), JInt(66)}])

CreateCustomerDetailed ==
    /\ call' = "create_customer"
    /\ UNCHANGED <<managers, arg, result>>
    /\ hotels_before' = <<>>
    /\ \E id \in next_id("CUS"), full_name \in DetailedFullNameArgs,
          email \in DetailedEmailArgs, phone \in DetailedPhoneArgs :
           create_customer(id, full_name, email, phone)

ModifyCustomerDetailed ==
    /\ call' = "modify_customer_information"
    /\ UNCHANGED <<managers, arg, result>>
    /\ hotels_before' = <<>>
    /\ \E customer_id \in CustomerIdArgs,
          changes \in DetailedCustomerChangesArgs :
           modify_customer_information(customer_id, changes)

NextCustomers ==
    \/ CreateCustomerDetailed
    \/ ModifyCustomerDetailed
    \/ DisplayCustomerInformation
    \/ DeleteCustomer

SpecCustomers == Init /\ [][NextCustomers]_vars

\* a stored customer whose name is not blank and whose e-mail has an "@"
C11_ValidCustomer(line) ==
    /\ py_strip(line.full_name.val) # ""
    /\ py_contains("@", line.email.val)

\* C11: every stored customer has a full_name that is not empty once trimmed
\* and an email containing "@"; a create_customer or a
\* modify_customer_information that would give an invalid customer returns
\* a failure and writes nothing.
C11_CustomersValid ==
    /\ [](\A i \in 1..Len(customers_file) :
             C11_ValidCustomer(customers_file[i]))
    /\ [][call' = "create_customer" =>
            \A id \in next_id("CUS"), full_name \in DetailedFullNameArgs,
               email \in DetailedEmailArgs, phone \in DetailedPhoneArgs :
                (/\ create_customer(id, full_name, email, phone)
                 /\ ~C11_ValidCustomer([full_name |-> py_str(full_name),
                                        email |-> py_str(email)]))
                    => /\ ret'.outcome = "fail"
                       /\ customers_file' = customers_file
                       /\ hotels_file' = hotels_file
                       /\ reservations_file' = reservations_file]_vars
    /\ [][call' = "modify_customer_information" =>
            \A customer_id \in CustomerIdArgs,
               changes \in DetailedCustomerChangesArgs :
                (/\ modify_customer_information(customer_id, changes)
                 /\ \E i \in CustomersWithId(customer_id) :
                       ~C11_ValidCustomer(
                           [f \in {"full_name", "email"} |->
                               IF f \in DOMAIN changes THEN py_str(changes[f])
                               ELSE customers_file[i][f]]))
                    => /\ ret'.outcome = "fail"
                       /\ customers_file' = customers_file
                       /\ hotels_file' = hotels_file
                       /\ reservations_file' = reservations_file]_vars

\* a change to a blank name or to an e-mail without "@" has been refused for
\* a stored customer whose name an earlier change had set
C11_Witness ==
    /\ call = "modify_customer_information"
    /\ ret.outcome = "fail"
    /\ \E i \in 1..Len(customers_file) :
          /\ customers_file[i].full_name = JStr("Bo")
          /\ customers_file[i].email = JStr("ana@example.com")

\* the hotel create_hotel stores for its arguments
C12_NewHotel(id, name, location, total_rooms, amenities) ==
    [hotel_id |-> id, name |-> name, location |-> location,
     total_rooms |-> total_rooms, available_rooms |-> total_rooms,
     amenities |-> amenities]

\* C12: create_hotel with total_rooms >= 0 appends exactly one hotel whose
\* available_rooms is its total_rooms, leaves the hotels stored before
\* unchanged and in their order, and display_hotel_information returns the
\* new record at once; with a negative total_rooms nothing is written and a
\* failure is returned.
C12_CreateHotel ==
    [][call' = "create_hotel" =>
        \A id \in next_id("HOT"), total_rooms \in DetailedRoomArgs,
           amenities \in DetailedAmenitiesArgs :
            create_hotel(id, JStr("Hotel Norte"), JStr("Saltillo"),
                         total_rooms, amenities) =>
                LET new == C12_NewHotel(id, JStr("Hotel Norte"),
                                        JStr("Saltillo"), total_rooms,
                                        amenities)
                IN  IF total_rooms.val >= 0
                    THEN /\ ret' = Outcome("ok", new)
                         /\ hotels_file' = Append(hotels_file, new)
                         /\ hotel_information(id)' = Some(new)
                         /\ customers_file' = customers_file
                         /\ reservations_file' = reservations_file
                    ELSE /\ ret'.outcome = "fail"
                         /\ hotels_file' = hotels_file
                         /\ customers_file' = customers_file
                         /\ reservations_file' = reservations_file]_vars

\* a hotel without rooms has been created after a hotel that was modified
\* before, and both are stored in that order
C12_Witness ==
    /\ call = "create_hotel"
    /\ ret.outcome = "ok"
    /\ Len(hotels_file) = 2
    /\ hotels_file[1].name = JStr("Hotel Norte Plus")
    /\ hotels_file[2] = ret.value
    /\ hotels_file[2].total_rooms = JInt(0)
    /\ hotels_file[2].available_rooms = JInt(0)

-----------------------------------------------------------------------------
(* Identifiers as _generate_id produces them: the first 8 hexadecimal      *)
(* digits of a uuid4, drawn anew at each call and compared with nothing,   *)
(* so a value produced before can be produced again.  The number of stored *)
(* records is capped by the bounds.                                        *)

CreateHotelAnyId ==
    /\ call' = "create_hotel"
    /\ UNCHANGED <<managers, arg, result>>
    /\ hotels_before' = <<>>
    /\ Len(hotels_file) < MaxHotels
    /\ \E id \in generate_id("HOT"), name \in NameArgs,
          location \in LocationArgs, total_rooms \in RoomArgs,
          amenities \in AmenitiesArgs :
           create_hotel(id, name, location, total_rooms, amenities)

CreateCustomerAnyId ==
    /\ call' = "create_customer"
    /\ UNCHANGED <<managers, arg, result>>
    /\ hotels_before' = <<>>
    /\ Len(customers_file) < MaxCustomers + 1
    /\ \E id \in generate_id("CUS"), full_name \in FullNameArgs,
          email \in EmailArgs, phone \in PhoneArgs :
           create_customer(id, full_name, email, phone)

CreateReservationAnyId ==
    /\ call' = "create_reservation"
    /\ UNCHANGED <<managers, arg, result>>
    /\ hotels_before' = hotels_file
    /\ Len(reservations_file) < MaxReservations
    /\ \E id \in generate_id("RES"), customer_id \in CustomerIdArgs,
          hotel_id \in HotelIdArgs, room_count \in RoomCountArgs :
           create_reservation(id, customer_id, hotel_id, room_count)

NextAnyId ==
    \/ CreateHotelAnyId
    \/ CreateCustomerAnyId
    \/ CreateReservationAnyId

SpecAnyId == Init /\ [][NextAnyId]_vars

\* C13: generated identifiers are unique: no two records of one collection
\* have the same hotel_id / customer_id / reservation_id.
C13_UniqueIds ==
    /\ \A i, j \in 1..Len(hotels_file) :
          hotels_file[i].hotel_id = hotels_file[j].hotel_id => i = j
    /\ \A i, j \in 1..Len(customers_file) :
          customers_file[i].customer_id = customers_file[j].customer_id => i = j
    /\ \A i, j \in 1..Len(reservations_file) :
          reservations_file[i].reservation_id
              = reservations_file[j].reservation_id => i = j

-----------------------------------------------------------------------------
(* Two manager instances on the same files.  create_reservation is taken   *)
(* statement by statement: each load reads one file, each save rewrites    *)
(* one file, and nothing is locked in between.                             *)

\* a store with one hotel of MaxRooms rooms and one customer, as create_hotel
\* and create_customer leave it
InitShared ==
    LET hotel == [hotel_id |-> JStr("HOT-1"), name |-> JStr("Hotel Centro"),
                  location |-> JStr("Monterrey"),
                  total_rooms |-> JInt(MaxRooms),
                  available_rooms |-> JInt(MaxRooms),
                  amenities |-> JList(<<>>)]
        customer == [customer_id |-> JStr("CUS-1"),
                     full_name |-> JStr("Ana Perez"),
                     email |-> JStr("ana@example.com"),
                     phone |-> JStr("8111111111")]
    IN  /\ hotels_file = save_hotels(<<hotel>>)
        /\ customers_file = save_customers(<<customer>>)
        /\ reservations_file = <<>>
        /\ issued = {hotel.hotel_id, customer.customer_id}
        /\ call = "create_customer"
        /\ ret = Outcome("ok", customer)
        /\ managers = [m \in Managers |-> Idle]
        /\ arg = JNull
        /\ result = JNull
        /\ hotels_before = <<>>

\* create_reservation is entered: the test of room_count
enter_create_reservation(m, customer_id, hotel_id, room_count) ==
    /\ managers[m].pc = "idle"
    /\ managers' = [managers EXCEPT ![m] =
          [pc |-> IF room_count.val <= 0 THEN "done" ELSE "load_customers",
           customer_id |-> customer_id, hotel_id |-> hotel_id,
           room_count |-> room_count, customers |-> <<>>, hotels |-> <<>>,
           reservations |-> <<>>, result |-> None]]
    /\ ret' = IF room_count.val <= 0 THEN Outcome("fail", JNull) ELSE ret
    /\ call' = IF room_count.val <= 0 THEN "create_reservation" ELSE call
    /\ UNCHANGED <<files, issued, hotels_before, arg, result>>

\* customers = self._load_customers()
step_load_customers(m) ==
    /\ managers[m].pc = "load_customers"
    /\ managers' = [managers EXCEPT
                        ![m].customers = load_customers(customers_file),
                        ![m].pc = "load_hotels"]
    /\ UNCHANGED <<files, issued, call, ret, hotels_before, arg, result>>

\* hotels = self._load_hotels()
step_load_hotels(m) ==
    /\ managers[m].pc = "load_hotels"
    /\ managers' = [managers EXCEPT
                        ![m].hotels = load_hotels(hotels_file),
                        ![m].pc = "load_reservations"]
    /\ UNCHANGED <<files, issued, call, ret, hotels_before, arg, result>>

\* reservations = self._load_reservations()
step_load_reservations(m) ==
    /\ managers[m].pc = "load_reservations"
    /\ managers' = [managers EXCEPT
                        ![m].reservations = load_reservations(reservations_file),
                        ![m].pc = "validate"]
    /\ UNCHANGED <<files, issued, call, ret, hotels_before, arg, result>>

\* the tests on the loaded lists and the changes made in memory
step_validate(m, id) ==
    LET me == managers[m]
        c == FirstIndex(me.customers,
                LAMBDA current : current.customer_id = me.customer_id)
        h == FirstIndex(me.hotels,
                LAMBDA current : current.hotel_id = me.hotel_id)
        hotel == [me.hotels[h] EXCEPT !.available_rooms =
                      rooms_after_reservation(me.hotels[h], me.room_count)]
        reservation == [reservation_id |-> id, customer_id |-> me.customer_id,
                        hotel_id |-> me.hotel_id,
                        room_count |-> me.room_count,
                        status |-> JStr("active")]
        validated == Reservation_from_dict(Reservation_to_dict(reservation))
        failed == IF c = 0 \/ h = 0 THEN TRUE
                  ELSE IF insufficient_rooms(me.hotels[h], me.room_count)
                  THEN TRUE ELSE validated.is_none
    IN  /\ me.pc = "validate"
        /\ IF failed
           THEN /\ managers' = [managers EXCEPT ![m].pc = "done"]
                /\ ret' = Outcome("fail", JNull)
                /\ call' = "create_reservation"
                /\ UNCHANGED issued
           ELSE /\ id # JNull
                /\ managers' = [managers EXCEPT
                      ![m].hotels = [me.hotels EXCEPT ![h] = hotel],
                      ![m].reservations =
                          Append(me.reservations, validated.value),
                      ![m].result = validated,
                      ![m].pc = "save_hotels"]
                /\ issued' = issued \cup {id}
                /\ UNCHANGED <<call, ret>>
        /\ UNCHANGED <<files, hotels_before, arg, result>>

\* self._save_hotels(hotels)
step_save_hotels(m) ==
    /\ managers[m].pc = "save_hotels"
    /\ hotels_file' = save_hotels(managers[m].hotels)
    /\ managers' = [managers EXCEPT ![m].pc = "save_reservations"]
    /\ UNCHANGED <<customers_file, reservations_file, issued, call, ret,
                   hotels_before, arg, result>>

\* self._save_reservations(reservations); return validated
step_save_reservations(m) ==
    /\ managers[m].pc = "save_reservations"
    /\ reservations_file' = save_reservations(managers[m].reservations)
    /\ managers' = [managers EXCEPT ![m].pc = "done"]
    /\ ret' = Outcome("ok", managers[m].result.value)
    /\ call' = "create_reservation"
    /\ UNCHANGED <<hotels_file, customers_file, issued, hotels_before, arg, result>>

SharedRoomCountArgs == {JInt(0), JInt(1), JInt(MaxRooms)}

EnterCreateReservation ==
    \E m \in Managers, customer_id \in CustomerIdArgs,
       room_count \in SharedRoomCountArgs :
        enter_create_reservation(m, customer_id, JStr("HOT-1"), room_count)

LoadCustomers == \E m \in Managers : step_load_customers(m)

LoadHotels == \E m \in Managers : step_load_hotels(m)

LoadReservations == \E m \in Managers : step_load_reservations(m)

Validate == \E m \in Managers, id \in next_id("RES") : step_validate(m, id)

SaveHotels == \E m \in Managers : step_save_hotels(m)

SaveReservations == \E m \in Managers : step_save_reservations(m)

NextShared ==
    \/ EnterCreateReservation
    \/ LoadCustomers
    \/ LoadHotels
    \/ LoadReservations
    \/ Validate
    \/ SaveHotels
    \/ SaveReservations

SpecShared == InitShared /\ [][NextShared]_vars


\* the managers whose create_reservation has returned a reservation
C14_Succeeded ==
    {m \in Managers : managers[m].pc = "done" /\ ~managers[m].result.is_none}

\* C14: nothing is locked: when the calls of the managers have returned, the
\* hotels file is the list one successful manager held in memory and the
\* reservations file is the list one successful manager held in memory (the
\* last writer of each file wins); what another manager wrote between that
\* manager's load and its save is lost.
C14_LastWriterWins ==
    ((\A m \in Managers : managers[m].pc = "done") /\ C14_Succeeded # {}) =>
        /\ \E m \in C14_Succeeded :
              hotels_file =
                  [i \in 1..Len(managers[m].hotels) |->
                      Hotel_to_dict(managers[m].hotels[i])]
        /\ \E m \in C14_Succeeded :
              reservations_file =
                  [i \in 1..Len(managers[m].reservations) |->
                      Reservation_to_dict(managers[m].reservations[i])]

\* both create_reservation calls have succeeded for one room each of the
\* same hotel; the hotels file shows one room taken and the reservations
\* file holds one of the two reservations
C14_Witness ==
    /\ C14_Succeeded = Managers
    /\ \A m \in Managers : managers[m].room_count = JInt(1)
    /\ hotels_file[1].available_rooms = JInt(MaxRooms - 1)
    /\ Len(reservations_file) = 1


\* C15: no operation removes a reservation record; the status of a
\* reservation is always active or cancelled, a new reservation is active,
\* the only change of status is from active to cancelled and a cancelled
\* reservation never becomes active again.
C15_ReservationLifecycle ==
    /\ [](\A t \in 1..Len(reservations_file) :
             reservations_file[t].status \in {JStr("active"), JStr("cancelled")})
    /\ [][/\ Len(reservations_file') >= Len(reservations_file)
          /\ \A t \in 1..Len(reservations_file) :
                /\ reservations_file'[t].reservation_id
                      = reservations_file[t].reservation_id
                /\ \/ reservations_file'[t] = reservations_file[t]
                   \/ /\ reservations_file[t].status = JStr("active")
                      /\ reservations_file'[t] =
                            [reservations_file[t] EXCEPT
                                !.status = JStr("cancelled")]
          /\ \A t \in (Len(reservations_file) + 1)..Len(reservations_file') :
                reservations_file'[t].status = JStr("active")]_vars

\* the hotel of a cancelled reservation has been deleted and the
\* reservation is still stored, next to an active one
C15_Witness ==
    /\ call = "delete_hotel"
    /\ ret.outcome = "ok"
    /\ \E s, t \in 1..Len(reservations_file) :
          /\ reservations_file[s].status = JStr("cancelled")
          /\ HotelsWithId(reservations_file[s].hotel_id) = {}
          /\ reservations_file[t].status = JStr("active")

-----------------------------------------------------------------------------
(* Reservations looked up by identifier and by customer name: several      *)
(* customers with different names, renamed and deleted, and their          *)
(* reservations in one hotel.                                              *)

\* number of identifiers uuid4 produces for the customers looked up
MaxGuests == 2

GuestIdArgs == {JStr("CUS-" \o ToString(n)) : n \in 1..MaxGuests}

\* the identifier create_customer draws: the least one not produced before
next_guest_id ==
    LET unused == {n \in 1..MaxGuests :
                      JStr("CUS-" \o ToString(n)) \notin issued}
    IN  IF unused = {} THEN {JNull}
        ELSE {JStr("CUS-" \o ToString(n)) :
                 n \in {m \in unused : \A k \in unused : m <= k}}

GuestNameArgs == {JStr("Ana Perez"), JStr("Roberto Martinez")}
GuestChangesArgs == {[full_name |-> JStr(" Mariana Robles")]}
GuestSearchArgs ==
    {JStr("rob"), JStr("ANA"), JStr("Rob "), JStr("perez"), JStr("z "),
     JStr(" \t"), JStr("")}

CreateGuest ==
    /\ call' = "create_customer"
    /\ UNCHANGED <<managers, arg, result>>
    /\ hotels_before' = <<>>
    /\ \E id \in next_guest_id, full_name \in GuestNameArgs :
           create_customer(id, full_name, JStr("guest@example.com"),
                           JStr("8111111111"))

RenameGuest ==
    /\ call' = "modify_customer_information"
    /\ UNCHANGED <<managers, arg, result>>
    /\ hotels_before' = <<>>
    /\ \E customer_id \in GuestIdArgs, changes \in GuestChangesArgs :
           modify_customer_information(customer_id, changes)

DeleteGuest ==
    /\ call' = "delete_customer"
    /\ UNCHANGED <<managers, arg, result>>
    /\ hotels_before' = <<>>
    /\ \E customer_id \in GuestIdArgs : delete_customer(customer_id)

CreateGuestHotel ==
    /\ call' = "create_hotel"
    /\ UNCHANGED <<managers, arg, result>>
    /\ hotels_before' = <<>>
    /\ hotels_file = <<>>
    /\ \E id \in next_id("HOT") :
           create_hotel(id, JStr("Hotel Centro"), JStr("Monterrey"),
                        JInt(MaxRooms), JNull)

CreateGuestReservation ==
    /\ call' = "create_reservation"
    /\ UNCHANGED <<managers, arg, result>>
    /\ hotels_before' = hotels_file
    /\ \E id \in next_id("RES"), customer_id \in GuestIdArgs,
          hotel_id \in HotelIdArgs :
           create_reservation(id, customer_id, hotel_id, JInt(1))

SearchGuestReservations ==
    /\ call' = "search_reservations_by_name"
    /\ UNCHANGED <<managers, arg, result>>
    /\ hotels_before' = <<>>
    /\ \E customer_name \in GuestSearchArgs :
           search_reservations_by_name(customer_name)

NextGuests ==
    \/ CreateGuest
    \/ RenameGuest
    \/ DeleteGuest
    \/ CreateGuestHotel
    \/ CreateGuestReservation
    \/ CancelReservation
    \/ DisplayReservationInformation
    \/ SearchGuestReservations

SpecGuests == Init /\ [][NextGuests]_vars


\* the name display_reservation_information is to give for a customer id
C16_NameOf(customer_id) ==
    IF \E i \in 1..Len(customers_file) :
          customers_file[i].customer_id = customer_id
    THEN customers_file[CHOOSE i \in 1..Len(customers_file) :
                            customers_file[i].customer_id = customer_id
                       ].full_name
    ELSE JStr("Cliente no encontrado")

\* C16: display_reservation_information of a stored reservation returns its
\* stored fields and, as customer_name, the present full_name of its
\* customer, or the placeholder when that customer was deleted; for an
\* unknown identifier it returns a failure.
C16_DisplayReservation ==
    [][call' = "display_reservation_information" =>
        \A reservation_id \in ReservationIdArgs :
            display_reservation_information(reservation_id) =>
                /\ UNCHANGED files
                /\ IF ReservationsWithId(reservation_id) = {}
                   THEN /\ ret'.outcome = "fail"
                        /\ reservation_information(reservation_id) = None
                   ELSE LET t == CHOOSE t \in ReservationsWithId(reservation_id) :
                                    TRUE
                        IN  /\ ret'.outcome = "ok"
                            /\ reservation_information(reservation_id) =
                                  Some([payload |-> reservations_file[t],
                                        customer_name |->
                                            C16_NameOf(reservations_file[t]
                                                           .customer_id)])]_vars

\* a reservation has been displayed while one stored reservation belongs to
\* a customer who was deleted and the other to a customer who was renamed
C16_Witness ==
    /\ call = "display_reservation_information"
    /\ ret.outcome = "ok"
    /\ \E s, t \in 1..Len(reservations_file) :
          /\ C16_NameOf(reservations_file[s].customer_id)
                = JStr("Cliente no encontrado")
          /\ C16_NameOf(reservations_file[t].customer_id)
                = JStr(" Mariana Robles")
    /\ Len(customers_file) = 1


\* the customers file has a customer with the reservation's customer_id
\* whose full name satisfies a test
C17_CustomerIs(line, Test(_)) ==
    \E i \in 1..Len(customers_file) :
        /\ customers_file[i].customer_id = line.customer_id
        /\ Test(customers_file[i].full_name.val)

\* the stored reservations whose customer's name satisfies a test, each with
\* that customer's full name
C17_Expected(Test(_)) ==
    LET found == SelectSeq(reservations_file,
                           LAMBDA line : C17_CustomerIs(line, Test))
    IN  [i \in 1..Len(found) |->
            [payload |-> found[i],
             customer_name |-> C16_NameOf(found[i].customer_id)]]

\* s is a substring of name, letter case apart
C17_ContainsNoCase(s, name) == py_contains(py_lower(s), py_lower(name))

\* C17 as stated: for a non-empty s that is not only whitespace,
\* search_reservations_by_name returns exactly the reservations, of any
\* status, whose customer's full name contains s as a substring, letter case
\* apart, each with that customer's full name.
C17_SearchBySubstring ==
    \A s \in GuestSearchArgs :
        py_strip(s.val) # "" =>
            reservations_by_name(s) =
                C17_Expected(LAMBDA name : C17_ContainsNoCase(s.val, name))

\* C17, amended: the substring looked for is s without its leading and
\* trailing whitespace, and it is looked for in the full name without its
\* leading and trailing whitespace; an s that is empty or only whitespace
\* gives the empty result, and the call reports a failure exactly when the
\* result is empty.
C17_SearchByTrimmedSubstring ==
    /\ [](\A s \in GuestSearchArgs :
             reservations_by_name(s) =
                 IF py_strip(s.val) = "" THEN <<>>
                 ELSE C17_Expected(
                          LAMBDA name :
                              C17_ContainsNoCase(py_strip(s.val),
                                                 py_strip(name))))
    /\ [][call' = "search_reservations_by_name" =>
            \A s \in GuestSearchArgs :
                search_reservations_by_name(s) =>
                    /\ UNCHANGED files
                    /\ ret'.outcome = "fail" <=> reservations_by_name(s) = <<>>]_vars

\* a search has succeeded while an active and a cancelled reservation are
\* stored for two customers, one called Roberto Martinez and one Ana Perez,
\* so that "rob" finds one reservation and leaves the other out
C17_Witness ==
    /\ call = "search_reservations_by_name"
    /\ ret.outcome = "ok"
    /\ Len(reservations_by_name(JStr("rob"))) = 1
    /\ Len(reservations_by_name(JStr("ANA"))) = 1
    /\ \E s, t \in 1..Len(reservations_file) :
          /\ reservations_file[s].status = JStr("active")
          /\ reservations_file[t].status = JStr("cancelled")
          /\ reservations_file[s].customer_id # reservations_file[t].customer_id

-----------------------------------------------------------------------------
(* storage.py: load_jsonl applied on its own to files of raw lines.        *)

\* greatest number of lines of a file
MaxLines == 3

JDict(m) == [kind |-> "dict", val |-> m]

\* a raw line: its text when its bytes are valid UTF-8
Utf8Line(text) == [utf8 |-> TRUE, text |-> text]
\* a line holding bytes that are not valid UTF-8
UndecodableLine == [utf8 |-> FALSE, text |-> ""]

\* json.loads on the texts of the model
json_loads(text) ==
    CASE text = "{\"a\": 1}" -> Returned(JDict([a |-> JInt(1)]))
      [] text = "{\"b\": 2}" -> Returned(JDict([b |-> JInt(2)]))
      [] text = "123" -> Returned(JInt(123))
      [] OTHER -> Raised("JSONDecodeError")

\* the loop of load_jsonl from line number n on: the exception that ends it
\* ("" when none), the records appended and the line numbers reported
RECURSIVE load_jsonl_lines(_, _)
load_jsonl_lines(lines, n) ==
    IF lines = <<>>
    THEN [exc |-> "", records |-> <<>>, diagnostics |-> <<>>]
    ELSE IF ~Head(lines).utf8
    THEN [exc |-> "UnicodeDecodeError", records |-> <<>>,
          diagnostics |-> <<>>]
    ELSE LET line == py_strip(Head(lines).text)
             payload == json_loads(line)
             rest == load_jsonl_lines(Tail(lines), n + 1)
         IN  IF line = "" THEN rest
             ELSE IF payload.exc # ""
             THEN [rest EXCEPT !.diagnostics = <<n>> \o @]
             ELSE IF payload.val.kind # "dict"
             THEN [rest EXCEPT !.diagnostics = <<n>> \o @]
             ELSE [rest EXCEPT !.records = <<payload.val.val>> \o @]

\* load_jsonl; the records are lost when an exception ends the call
load_jsonl(file) ==
    IF ~file.exists
    THEN [exc |-> "", records |-> <<>>, diagnostics |-> <<>>]
    ELSE LET loaded == load_jsonl_lines(file.lines, 1)
         IN  IF loaded.exc # "" THEN [loaded EXCEPT !.records = <<>>]
             ELSE loaded

RawLineArgs ==
    {Utf8Line("{\"a\": 1}"), Utf8Line("{\"b\": 2}"), Utf8Line("123"),
     Utf8Line("{invalido}"), Utf8Line("  "), UndecodableLine}

RECURSIVE LinesUpTo(_)
LinesUpTo(n) ==
    IF n = 0 THEN {<<>>}
    ELSE LinesUpTo(n - 1)
            \cup {Append(l, x) : l \in LinesUpTo(n - 1), x \in RawLineArgs}

JsonlFileArgs ==
    {[exists |-> FALSE, lines |-> <<>>]}
        \cup {[exists |-> TRUE, lines |-> l] : l \in LinesUpTo(MaxLines)}

LoadJsonl ==
    /\ call' = "load_jsonl"
    /\ \E file \in JsonlFileArgs :
          /\ arg' = file
          /\ result' = load_jsonl(file)
    /\ UNCHANGED <<files, issued, ret, managers, hotels_before>>

NextStorage ==
    \/ LoadJsonl

SpecStorage == Init /\ [][NextStorage]_vars

\* the positions of the lines of a file that are not blank and either fail to
\* decode or decode to something that is not a mapping
C18_BadLines(file) ==
    {i \in 1..Len(file.lines) :
        \/ ~file.lines[i].utf8
        \/ /\ py_strip(file.lines[i].text) # ""
           /\ \/ json_loads(py_strip(file.lines[i].text)).exc # ""
              \/ json_loads(py_strip(file.lines[i].text)).val.kind # "dict"}

\* the mappings of the lines of a file that decode to a mapping, in order
C18_Mappings(file) ==
    LET good == SelectSeq(file.lines,
                   LAMBDA l :
                       /\ l.utf8
                       /\ json_loads(py_strip(l.text)).exc = ""
                       /\ json_loads(py_strip(l.text)).val.kind = "dict")
    IN  [i \in 1..Len(good) |-> json_loads(py_strip(good[i].text)).val.val]

\* C18: load_jsonl never fails on a partly corrupt file: it returns the empty
\* sequence for an absent file and otherwise, in file order, exactly the
\* lines that decode to a mapping; every line that fails to decode or decodes
\* to something else is skipped with exactly one diagnostic, and loading goes
\* on with the following lines.
C18_LoadNeverFails ==
    call = "load_jsonl" =>
        /\ result.exc = ""
        /\ result.records = C18_Mappings(arg)
        /\ Len(result.diagnostics) = Cardinality(C18_BadLines(arg))
        /\ ~arg.exists => result.records = <<>>

-----------------------------------------------------------------------------
(* models.py: from_dict and to_dict applied on their own to entities and   *)
(* to mappings, well formed or not.                                        *)

\* a mapping without one of its keys
Without(payload, key) == [f \in DOMAIN payload \ {key} |-> payload[f]]

\* a mapping with another value for one key
With(payload, key, value) == [payload EXCEPT ![key] = value]

HotelArgs ==
    {[hotel_id |-> JStr("HOT-1"), name |-> JStr("Hotel Centro"),
      location |-> JStr("Monterrey"), total_rooms |-> total,
      available_rooms |-> avail, amenities |-> amenities] :
        total \in {JInt(0), JInt(MaxRooms), JStr("2")},
        avail \in {JInt(0 - 1), JInt(0), JInt(1), JInt(MaxRooms + 1)},
        amenities \in {JList(<<>>), JList(<<"wifi", "gym">>)}}

CustomerArgs ==
    {[customer_id |-> JStr("CUS-1"), full_name |-> full_name,
      email |-> email, phone |-> phone] :
        full_name \in {JStr("Ana Perez"), JStr(" Ana "), JStr(" "), JInt(5)},
        email \in {JStr("ana@example.com"), JStr("ana.example.com")},
        phone \in {JStr("8111111111"), JInt(55)}}

ReservationArgs ==
    {[reservation_id |-> JStr("RES-1"), customer_id |-> JStr("CUS-1"),
      hotel_id |-> JStr("HOT-1"), room_count |-> room_count,
      status |-> status] :
        room_count \in {JInt(0), JInt(1), JInt(MaxRooms), JStr("1")},
        status \in {JStr("active"), JStr("cancelled"), JStr("pending"),
                    JNull}}

\* the mappings given to from_dict: those of the entities, with a key
\* removed, and with a value of another type
HotelPayloadArgs ==
    LET base == {Hotel_to_dict(h) : h \in HotelArgs}
        one == Hotel_to_dict(
                   [hotel_id |-> JStr("HOT-1"), name |-> JStr("Hotel Centro"),
                    location |-> JStr("Monterrey"),
                    total_rooms |-> JInt(MaxRooms),
                    available_rooms |-> JInt(1),
                    amenities |-> JList(<<"wifi">>)])
    IN  base \cup {Without(one, k) : k \in DOMAIN one}
             \cup {With(one, "name", JInt(5)), With(one, "hotel_id", JNull),
                   With(one, "total_rooms", JStr("abc")),
                   With(one, "total_rooms", JNull),
                   With(one, "available_rooms", JList(<<>>)),
                   With(one, "amenities", JInt(5)),
                   With(one, "amenities", JNull)}

CustomerPayloadArgs ==
    LET base == {Customer_to_dict(c) : c \in CustomerArgs}
        one == Customer_to_dict(
                   [customer_id |-> JStr("CUS-1"),
                    full_name |-> JStr("Ana Perez"),
                    email |-> JStr("ana@example.com"),
                    phone |-> JStr("8111111111")])
    IN  base \cup {Without(one, k) : k \in DOMAIN one}
             \cup {With(one, "customer_id", JInt(7)),
                   With(one, "email", JNull)}

ReservationPayloadArgs ==
    LET base == {Reservation_to_dict(r) : r \in ReservationArgs}
        one == Reservation_to_dict(
                   [reservation_id |-> JStr("RES-1"),
                    customer_id |-> JStr("CUS-1"), hotel_id |-> JStr("HOT-1"),
                    room_count |-> JInt(1), status |-> JStr("cancelled")])
    IN  base \cup {Without(one, k) : k \in DOMAIN one}
             \cup {With(one, "room_count", JStr("abc")),
                   With(one, "room_count", JNull),
                   With(one, "hotel_id", JInt(7))}

HotelFromDict ==
    /\ call' = "Hotel.from_dict"
    /\ \E payload \in HotelPayloadArgs :
          /\ arg' = payload
          /\ result' = Hotel_from_dict(payload)
    /\ UNCHANGED <<files, issued, ret, managers, hotels_before>>

CustomerFromDict ==
    /\ call' = "Customer.from_dict"
    /\ \E payload \in CustomerPayloadArgs :
          /\ arg' = payload
          /\ result' = Customer_from_dict(payload)
    /\ UNCHANGED <<files, issued, ret, managers, hotels_before>>

ReservationFromDict ==
    /\ call' = "Reservation.from_dict"
    /\ \E payload \in ReservationPayloadArgs :
          /\ arg' = payload
          /\ result' = Reservation_from_dict(payload)
    /\ UNCHANGED <<files, issued, ret, managers, hotels_before>>

\* from_dict(to_dict(entity))
HotelRoundTrip ==
    /\ call' = "Hotel.to_dict"
    /\ \E hotel \in HotelArgs :
          /\ arg' = hotel
          /\ result' = Hotel_from_dict(Hotel_to_dict(hotel))
    /\ UNCHANGED <<files, issued, ret, managers, hotels_before>>

CustomerRoundTrip ==
    /\ call' = "Customer.to_dict"
    /\ \E customer \in CustomerArgs :
          /\ arg' = customer
          /\ result' = Customer_from_dict(Customer_to_dict(customer))
    /\ UNCHANGED <<files, issued, ret, managers, hotels_before>>

ReservationRoundTrip ==
    /\ call' = "Reservation.to_dict"
    /\ \E reservation \in ReservationArgs :
          /\ arg' = reservation
          /\ result' = Reservation_from_dict(Reservation_to_dict(reservation))
    /\ UNCHANGED <<files, issued, ret, managers, hotels_before>>

NextModels ==
    \/ HotelFromDict
    \/ CustomerFromDict
    \/ ReservationFromDict
    \/ HotelRoundTrip
    \/ CustomerRoundTrip
    \/ ReservationRoundTrip

SpecModels == Init /\ [][NextModels]_vars


\* the fields of an entity have the types its class declares
C19_Typed(entity, strings, integers, lists) ==
    /\ DOMAIN entity = strings \cup integers \cup lists
    /\ \A f \in strings : entity[f].kind = "str"
    /\ \A f \in integers : entity[f].kind = "int"
    /\ \A f \in lists : entity[f].kind = "list"

C19_ValidHotel(h) ==
    /\ C19_Typed(h, {"hotel_id", "name", "location"},
                 {"total_rooms", "available_rooms"}, {"amenities"})
    /\ 0 <= h.available_rooms.val
    /\ h.available_rooms.val <= h.total_rooms.val

C19_ValidCustomer(c) ==
    /\ C19_Typed(c, {"customer_id", "full_name", "email", "phone"}, {}, {})
    /\ py_contains("@", c.email.val)
    /\ py_strip(c.full_name.val) # ""

C19_ValidReservation(r) ==
    /\ C19_Typed(r, {"reservation_id", "customer_id", "hotel_id", "status"},
                 {"room_count"}, {})
    /\ r.room_count.val > 0
    /\ r.status.val \in {"active", "cancelled"}

\* C19: for every valid Hotel, Customer and Reservation e,
\* from_dict(to_dict(e)) is an entity and equals e field by field.
C19_RoundTrip ==
    /\ (call = "Hotel.to_dict" /\ C19_ValidHotel(arg)) => result = Some(arg)
    /\ (call = "Customer.to_dict" /\ C19_ValidCustomer(arg)) =>
          result = Some(arg)
    /\ (call = "Reservation.to_dict" /\ C19_ValidReservation(arg)) =>
          result = Some(arg)

\* a valid cancelled reservation of MaxRooms rooms has gone through to_dict
\* and from_dict
C19_Witness ==
    /\ call = "Reservation.to_dict"
    /\ C19_ValidReservation(arg)
    /\ arg.status = JStr("cancelled")
    /\ arg.room_count = JInt(MaxRooms)
    /\ ~result.is_none

\* a field of the entity is missing from the mapping or has another type
C20_MissingOrWrongType(payload, strings, integers, lists) ==
    \/ ~(strings \cup integers \cup lists \subseteq DOMAIN payload)
    \/ \E f \in strings \cap DOMAIN payload : payload[f].kind # "str"
    \/ \E f \in integers \cap DOMAIN payload : payload[f].kind # "int"
    \/ \E f \in lists \cap DOMAIN payload : payload[f].kind # "list"

\* C20: from_dict of each entity type returns no entity whenever a field of
\* the entity is missing from the mapping or has the wrong type, also for a
\* hotel mapping without amenities, a reservation mapping without status
\* and a value that is not a string given for a string field.
C20_FromDictRejects ==
    /\ (/\ call = "Hotel.from_dict"
        /\ C20_MissingOrWrongType(arg, {"hotel_id", "name", "location"},
               {"total_rooms", "available_rooms"}, {"amenities"}))
          => result = None
    /\ (/\ call = "Customer.from_dict"
        /\ C20_MissingOrWrongType(arg,
               {"customer_id", "full_name", "email", "phone"}, {}, {}))
          => result = None
    /\ (/\ call = "Reservation.from_dict"
        /\ C20_MissingOrWrongType(arg,
               {"reservation_id", "customer_id", "hotel_id", "status"},
               {"room_count"}, {}))
          => result = None

-----------------------------------------------------------------------------
(* A hotels file written by hand: its lines are well-typed hotel records   *)
(* whose room counts may violate the room invariant.  One customer is      *)
(* stored, so that a reservation request gets as far as the hotel lookup.  *)

StoredRoomArgs == {JInt(0 - 1), JInt(1), JInt(MaxRooms)}

HotelLineArgs ==
    {[hotel_id |-> id, name |-> JStr("Hotel Centro"),
      location |-> JStr("Monterrey"), total_rooms |-> total_rooms,
      available_rooms |-> available_rooms, amenities |-> JList(<<>>)] :
        id \in HotelIdArgs, total_rooms \in StoredRoomArgs,
        available_rooms \in StoredRoomArgs}

HotelsFileArgs ==
    UNION {[1..n -> HotelLineArgs] : n \in 0..MaxHotels}

InitLoad ==
    /\ hotels_file \in HotelsFileArgs
    /\ customers_file =
          <<[customer_id |-> JStr("CUS-1"), full_name |-> JStr("Ana Perez"),
             email |-> JStr("ana@example.com"), phone |-> JStr("8111111111")]>>
    /\ reservations_file = <<>>
    /\ issued = {JStr("CUS-1")} \cup
                   {hotels_file[i].hotel_id : i \in 1..Len(hotels_file)}
    /\ call = "init"
    /\ managers = [m \in Managers |-> Idle]
    /\ arg = JNull
    /\ result = JNull
    /\ hotels_before = <<>>
    /\ ret = Outcome("ok", JNull)

NextLoad ==
    \/ DisplayHotelInformation
    \/ ModifyHotelInformation
    \/ CreateReservation
    \/ ReserveRoom

SpecLoad == InitLoad /\ [][NextLoad]_vars

\* the room invariant of a stored hotel record
C21_RoomInvariant(line) ==
    /\ 0 <= line.total_rooms.val
    /\ 0 <= line.available_rooms.val
    /\ line.available_rooms.val <= line.total_rooms.val

\* a record of the file violates the room invariant and no valid record
\* carries its identifier
C21_OnlyInvalid(hotel_id) ==
    /\ \E i \in 1..Len(hotels_file) :
          /\ hotels_file[i].hotel_id = hotel_id
          /\ ~C21_RoomInvariant(hotels_file[i])
    /\ \A i \in 1..Len(hotels_file) :
          hotels_file[i].hotel_id = hotel_id =>
              ~C21_RoomInvariant(hotels_file[i])

\* C21: when the hotels file holds a record with negative rooms or with
\* available_rooms > total_rooms, the hotels loaded are exactly the records
\* that satisfy the room invariant, in file order and with their stored
\* room counts (nothing is clamped), and display, modify and reserve treat
\* the identifier of a rejected record as not found: they fail and leave
\* the files as they are.
C21_InvalidHotelsRejected ==
    /\ [](load_hotels(hotels_file) =
            SelectSeq(hotels_file, C21_RoomInvariant))
    /\ [][\A hotel_id \in HotelIdArgs :
            C21_OnlyInvalid(hotel_id) =>
              /\ hotel_information(hotel_id) = None
              /\ \A changes \in HotelChangesArgs :
                    modify_hotel_information(hotel_id, changes) =>
                        ret'.outcome = "fail" /\ UNCHANGED files
              /\ \A id \in next_id("RES"), customer_id \in CustomerIdArgs,
                    room_count \in RoomCountArgs :
                    create_reservation(id, customer_id, hotel_id, room_count)
                        => ret'.outcome \in {"fail", "raise"} /\ UNCHANGED files
              /\ \A id \in next_id("RES"), customer_id \in CustomerIdArgs :
                    reserve_room(id, hotel_id, customer_id, JInt(1))
                        => ret'.outcome = "fail" /\ UNCHANGED files]_vars

\* a request for a room of the hotel whose record has more rooms available
\* than it has in total was refused, next to a valid record
C21_Witness ==
    /\ call = "reserve_room"
    /\ ret.outcome = "fail"
    /\ Len(hotels_file) = 2
    /\ hotels_file[1].total_rooms = JInt(1)
    /\ hotels_file[1].available_rooms = JInt(MaxRooms)
    /\ C21_RoomInvariant(hotels_file[2])
    /\ hotels_file[2].hotel_id # hotels_file[1].hotel_id
    /\ hotel_information(hotels_file[1].hotel_id) = None
    /\ hotel_information(hotels_file[2].hotel_id) # None

-----------------------------------------------------------------------------
\* C22: reserve_room(hotel_id, customer_id, room_count) is equivalent to
\* create_reservation(customer_id, hotel_id, room_count): from the same
\* persisted state a call of either is an outcome of the one exactly when
\* it is an outcome of the other with the same generated identifier, so
\* both return the same outcome and leave the same hotels and reservations
\* files.
C22_ReserveRoomIsCreateReservation ==
    [][call' \in {"reserve_room", "create_reservation"} =>
         \A id \in next_id("RES"), hotel_id \in HotelIdArgs,
            customer_id \in CustomerIdArgs, room_count \in RoomCountArgs :
              reserve_room(id, hotel_id, customer_id, room_count)
                <=> create_reservation(id, customer_id, hotel_id, room_count)
      ]_vars

\* reserve_room has stored a reservation: the record names the customer and
\* the hotel in their own fields and the hotel has one room less
C22_Witness ==
    /\ call = "reserve_room"
    /\ ret.outcome = "ok"
    /\ Len(reservations_file) > 0
    /\ LET line == reservations_file[Len(reservations_file)]
       IN  /\ line.reservation_id = ret.value.reservation_id
           /\ line.customer_id \in CustomerIdArgs
           /\ line.hotel_id \in HotelIdArgs
           /\ line.room_count = JInt(1)
           /\ line.status = JStr("active")
           /\ \E i \in 1..Len(hotels_file) :
                 /\ hotels_file[i].hotel_id = line.hotel_id
                 /\ hotels_file[i].available_rooms.val =
                       hotels_before[i].available_rooms.val - 1

-----------------------------------------------------------------------------
(* The number converter (src/4.2/p2/source/convertNumbers.py).  A Python   *)
(* integer that can exceed 31 bits, (1 << 40) + numero, is kept as a sign  *)
(* and the bits of its magnitude, least significant first.                 *)

\* largest magnitude of the numbers converted, next to some larger ones
MaxNumber == 1030

\* "".join(reversed(digitos))
RECURSIVE py_join_reversed(_)
py_join_reversed(digitos) ==
    IF digitos = <<>> THEN ""
    ELSE digitos[Len(digitos)]
            \o py_join_reversed(SubSeq(digitos, 1, Len(digitos) - 1))

\* the list the loop `while valor > 0` builds: divmod, then append
RECURSIVE digitos_de(_, _, _)
digitos_de(valor, base, simbolos) ==
    IF valor > 0
    THEN LET residuo == valor % base
         IN  <<SubSeq(simbolos, residuo + 1, residuo + 1)>>
                \o digitos_de(valor \div base, base, simbolos)
    ELSE <<>>

\* a slip: the sign is lost
convertir_base_unsigned(numero, base, simbolos) ==
    IF numero = 0 THEN "0"
    ELSE LET valor == IF numero < 0 THEN 0 - numero ELSE numero
         IN  py_join_reversed(digitos_de(valor, base, simbolos))

convertir_base(numero, base, simbolos) ==
    IF numero = 0 THEN "0"
    ELSE LET signo == IF numero < 0 THEN "-" ELSE ""
             valor == IF numero < 0 THEN 0 - numero ELSE numero
         IN  signo \o py_join_reversed(digitos_de(valor, base, simbolos))

\* the bits of a natural number, least significant first
RECURSIVE ToBits(_)
ToBits(v) == IF v = 0 THEN <<>> ELSE <<v % 2>> \o ToBits(v \div 2)

\* a - b on bits, for a >= b: bit i of the difference, given the borrow
RECURSIVE SubBits(_, _, _, _)
SubBits(a, b, i, borrow) ==
    IF i > Len(a) THEN <<>>
    ELSE LET d == a[i] - (IF i <= Len(b) THEN b[i] ELSE 0) - borrow
         IN  <<d % 2>> \o SubBits(a, b, i + 1, IF d < 0 THEN 1 ELSE 0)

\* without the zero bits above the most significant one
RECURSIVE TrimBits(_)
TrimBits(s) ==
    IF s # <<>> /\ s[Len(s)] = 0
    THEN TrimBits(SubSeq(s, 1, Len(s) - 1))
    ELSE s

\* (1 << k) + numero for a negative numero
shift_plus(k, numero) ==
    LET power == [i \in 1..(k + 1) |-> IF i = k + 1 THEN 1 ELSE 0]
        magnitude == ToBits(0 - numero)
    IN  IF Len(magnitude) <= k \/ magnitude = power
        THEN [negative |-> FALSE,
              bits |-> TrimBits(SubBits(power, magnitude, 1, 0))]
        ELSE [negative |-> TRUE,
              bits |-> TrimBits(SubBits(magnitude, power, 1, 0))]

\* the digits of the bits in base 2^width_of_digit, from digit j down to 0
RECURSIVE py_digits(_, _, _, _)
py_digits(bits, width_of_digit, simbolos, j) ==
    IF j < 0 THEN ""
    ELSE LET bit(i) == IF i <= Len(bits) THEN bits[i] ELSE 0
             RECURSIVE value(_)
             value(i) == IF i > width_of_digit THEN 0
                         ELSE bit(j * width_of_digit + i) + 2 * value(i + 1)
         IN  SubSeq(simbolos, value(1) + 1, value(1) + 1)
                \o py_digits(bits, width_of_digit, simbolos, j - 1)

RECURSIVE py_zeros(_)
py_zeros(n) == IF n <= 0 THEN "" ELSE "0" \o py_zeros(n - 1)

\* format(x, "0<width>b") and format(x, "0<width>X"): the digits of |x|,
\* filled with zeros after the sign up to the width, never shortened
py_format(x, width, width_of_digit, simbolos) ==
    LET count == (Len(x.bits) + width_of_digit - 1) \div width_of_digit
        digits == IF x.bits = <<>> THEN "0"
                  ELSE py_digits(x.bits, width_of_digit, simbolos, count - 1)
        signo == IF x.negative THEN "-" ELSE ""
    IN  signo \o py_zeros(width - Len(signo) - Len(digits)) \o digits

BinarySymbols == "01"
HexSymbols == "0123456789ABCDEF"

a_binario(numero) ==
    IF numero < 0
    THEN py_format(shift_plus(10, numero), 10, 1, BinarySymbols)
    ELSE convertir_base(numero, 2, BinarySymbols)

a_hexadecimal(numero) ==
    IF numero < 0
    THEN py_format(shift_plus(40, numero), 10, 4, HexSymbols)
    ELSE convertir_base(numero, 16, HexSymbols)

\* the integers int(token) hands to the conversions
NumberArgs ==
    ((0 - MaxNumber)..MaxNumber)
        \cup {2^20 - 1, 2^20, 0 - 2^20, 0 - 2^20 - 1, 1 - 2^30, 2^30}

\* the bases and symbols convertir_base is called with
BaseArgs ==
    {[base |-> 2, simbolos |-> BinarySymbols],
     [base |-> 3, simbolos |-> "012"],
     [base |-> 10, simbolos |-> "0123456789"],
     [base |-> 16, simbolos |-> HexSymbols]}

InitNumbers ==
    /\ hotels_file = <<>>
    /\ customers_file = <<>>
    /\ reservations_file = <<>>
    /\ issued = {}
    /\ call = "init"
    /\ managers = [m \in Managers |-> Idle]
    /\ arg \in {[numero |-> n] : n \in NumberArgs}
    /\ result = JNull
    /\ hotels_before = <<>>
    /\ ret = Outcome("ok", JNull)

ConvertirBase ==
    /\ call' = "convertir_base"
    /\ \E b \in BaseArgs :
          /\ arg' = [numero |-> arg.numero, base |-> b.base,
                     simbolos |-> b.simbolos]
          /\ result' = convertir_base(arg.numero, b.base, b.simbolos)
    /\ UNCHANGED <<files, issued, ret, managers, hotels_before>>

ABinario ==
    /\ call' = "a_binario"
    /\ arg' = [numero |-> arg.numero]
    /\ result' = a_binario(arg.numero)
    /\ UNCHANGED <<files, issued, ret, managers, hotels_before>>

AHexadecimal ==
    /\ call' = "a_hexadecimal"
    /\ arg' = [numero |-> arg.numero]
    /\ result' = a_hexadecimal(arg.numero)
    /\ UNCHANGED <<files, issued, ret, managers, hotels_before>>

NextNumbers ==
    \/ ConvertirBase
    \/ ABinario
    \/ AHexadecimal

SpecNumbers == InitNumbers /\ [][NextNumbers]_vars

\* every character of a text is one of the symbols
C23_Digits(text, simbolos) ==
    \A i \in 1..Len(text) :
        \E k \in 1..Len(simbolos) :
            SubSeq(text, i, i) = SubSeq(simbolos, k, k)

\* the number a digit string denotes in a base
RECURSIVE C23_Value(_, _, _)
C23_Value(text, base, simbolos) ==
    IF text = "" THEN 0
    ELSE LET last == SubSeq(text, Len(text), Len(text))
             k == CHOOSE k \in 1..Len(simbolos) : SubSeq(simbolos, k, k) = last
         IN  C23_Value(SubSeq(text, 1, Len(text) - 1), base, simbolos) * base
                + (k - 1)

\* a text is the digits of a positive number: most significant first, no
\* leading zero
C23_DigitsOf(text, n, base, simbolos) ==
    /\ Len(text) > 0
    /\ C23_Digits(text, simbolos)
    /\ SubSeq(text, 1, 1) # "0"
    /\ C23_Value(text, base, simbolos) = n

\* C23: convertir_base(n, b, symbols) returns "0" for n = 0, and otherwise
\* a leading "-" exactly when n < 0 followed by the base-b digits of |n|,
\* most significant first with no leading zero, whose value in base b is
\* |n|; in base 10 that is the decimal numeral of n.
C23_ConvertirBase ==
    call = "convertir_base" =>
        /\ arg.numero = 0 => result = "0"
        /\ arg.numero > 0 =>
              C23_DigitsOf(result, arg.numero, arg.base, arg.simbolos)
        /\ arg.numero < 0 =>
              /\ SubSeq(result, 1, 1) = "-"
              /\ C23_DigitsOf(SubSeq(result, 2, Len(result)), 0 - arg.numero,
                              arg.base, arg.simbolos)
        /\ arg.base = 10 => result = ToString(arg.numero)

\* -15 was converted to base 16
C23_Witness ==
    /\ call = "convertir_base"
    /\ arg.numero = 0 - 15
    /\ arg.base = 16
    /\ result = "-F"


\* C24: for every negative n a_binario returns exactly 10 binary digits
\* whose unsigned value is 2^10 + n, and for n >= 0 the unpadded binary
\* digits of n; a_hexadecimal returns for every negative n exactly 10
\* hexadecimal digits whose unsigned value is 2^40 + n (the value is
\* compared in two halves of five digits: 2^40 + n = high * 2^20 + low).
C24_TwosComplement ==
    /\ (call = "a_binario" /\ arg.numero < 0) =>
          /\ Len(result) = 10
          /\ C23_Digits(result, BinarySymbols)
          /\ C23_Value(result, 2, BinarySymbols) = 2^10 + arg.numero
    /\ (call = "a_binario" /\ arg.numero = 0) => result = "0"
    /\ (call = "a_binario" /\ arg.numero > 0) =>
          C23_DigitsOf(result, arg.numero, 2, BinarySymbols)
    /\ (call = "a_hexadecimal" /\ arg.numero < 0) =>
          /\ Len(result) = 10
          /\ C23_Digits(result, HexSymbols)
          /\ C23_Value(SubSeq(result, 1, 5), 16, HexSymbols) =
                2^20 + (arg.numero \div 2^20)
          /\ C23_Value(SubSeq(result, 6, 10), 16, HexSymbols) =
                arg.numero % 2^20

-----------------------------------------------------------------------------
(* The sales calculator (src/5.2/source/computeSales.py).  Amounts are     *)
(* counted in halves of the currency unit.  A result carries the exception *)
(* that ended the call ("" when none) and the number of errors printed.    *)

\* most items of a sale and most sales of a record file
MaxItems == 2
MaxSales == 2

\* compute_item_cost: the cost of one item, 0 with an error for invalid data
compute_item_cost(item, lookup) ==
    LET invalid == [exc |-> "", cost |-> 0, errors |-> 1]
        priced(title, quantity) ==
            IF title \notin DOMAIN lookup THEN invalid
            ELSE [exc |-> "", cost |-> lookup[title] * quantity, errors |-> 0]
    IN  IF item.kind = "str"
        THEN priced(py_strip(item.val), 1)
        ELSE IF item.kind = "dict"
        THEN LET raw_title == IF "title" \in DOMAIN item.val
                              THEN item.val.title ELSE JNull
                 raw_quantity == IF "quantity" \in DOMAIN item.val
                                 THEN item.val.quantity ELSE JInt(1)
                 quantity == py_int(raw_quantity)
             IN  IF raw_title.kind # "str" THEN invalid
                 ELSE IF py_strip(raw_title.val) = "" THEN invalid
                 ELSE IF quantity.exc \in {"TypeError", "ValueError"}
                 THEN invalid
                 ELSE IF quantity.exc # ""
                 THEN [exc |-> quantity.exc, cost |-> 0, errors |-> 0]
                 ELSE IF quantity.val.val < 0 THEN invalid
                 ELSE priced(py_strip(raw_title.val), quantity.val.val)
        ELSE invalid

\* normalize_sale_items: the items of a sale, none with an error when the
\* sale is not an object or its 'items' is not a list
normalize_sale_items(sale) ==
    IF sale.kind # "dict" THEN [items |-> <<>>, errors |-> 1]
    ELSE LET items == IF "items" \in DOMAIN sale.val
                      THEN sale.val.items ELSE JNull
         IN  IF items.kind # "list" THEN [items |-> <<>>, errors |-> 1]
             ELSE [items |-> items.val, errors |-> 0]

\* the inner loop: sale_total += compute_item_cost(item, ...)
RECURSIVE sum_items(_, _, _, _)
sum_items(items, lookup, item_index, acc) ==
    IF item_index > Len(items) THEN acc
    ELSE LET item == compute_item_cost(items[item_index], lookup)
         IN  IF item.exc # ""
             THEN [acc EXCEPT !.exc = item.exc]
             ELSE sum_items(items, lookup, item_index + 1,
                            [exc |-> "", total |-> acc.total + item.cost,
                             errors |-> acc.errors + item.errors])

\* the outer loop of compute_sales_totals
RECURSIVE sum_sales(_, _, _, _)
sum_sales(sales_records, lookup, sale_index, acc) ==
    IF sale_index > Len(sales_records) THEN acc
    ELSE LET sale == normalize_sale_items(sales_records[sale_index])
             sale_total ==
                 sum_items(sale.items, lookup, 1,
                           [exc |-> "", total |-> 0, errors |-> sale.errors])
         IN  IF sale_total.exc # ""
             THEN [acc EXCEPT !.exc = sale_total.exc]
             ELSE sum_sales(sales_records, lookup, sale_index + 1,
                      [exc |-> "",
                       sale_totals |-> Append(acc.sale_totals, sale_total.total),
                       global_total |-> acc.global_total + sale_total.total,
                       errors |-> acc.errors + sale_total.errors])

compute_sales_totals(sales_records, lookup) ==
    sum_sales(sales_records, lookup, 1,
              [exc |-> "", sale_totals |-> <<>>, global_total |-> 0,
               errors |-> 0])

\* the price lookup: apple 2.5, banana 1.0
LookupArgs == {[apple |-> 5, banana |-> 2]}

\* the items of a sale as json.load returns them; 1e999 is read as inf
ItemArgs ==
    {JStr("apple"), JStr(" banana "), JStr("kiwi"), JInt(42),
     JDict([title |-> JStr("banana")]),
     JDict([title |-> JStr("apple"), quantity |-> JInt(2)]),
     JDict([title |-> JStr("apple"), quantity |-> JInt(0 - 1)]),
     JDict([title |-> JStr("apple"), quantity |-> JStr("abc")]),
     JDict([title |-> JStr("banana"), quantity |-> JFloat(5)]),
     JDict([title |-> JStr("apple"), quantity |-> JInf]),
     JDict([title |-> JInt(7), quantity |-> JInt(1)])}

SaleArgs ==
    {JDict([items |-> JList(items)]) :
        items \in UNION {[1..n -> ItemArgs] : n \in 0..MaxItems}}
        \cup {JInt(7), JDict([total |-> JInt(3)]),
              JDict([items |-> JStr("apple")])}

SalesRecordArgs == UNION {[1..n -> SaleArgs] : n \in 0..MaxSales}

InitSales ==
    /\ hotels_file = <<>>
    /\ customers_file = <<>>
    /\ reservations_file = <<>>
    /\ issued = {}
    /\ call = "init"
    /\ managers = [m \in Managers |-> Idle]
    /\ arg \in {[sales_records |-> sales_records, lookup |-> lookup] :
                   sales_records \in SalesRecordArgs, lookup \in LookupArgs}
    /\ result = JNull
    /\ hotels_before = <<>>
    /\ ret = Outcome("ok", JNull)

ComputeSalesTotals ==
    /\ call = "init"
    /\ call' = "compute_sales_totals"
    /\ result' = compute_sales_totals(arg.sales_records, arg.lookup)
    /\ UNCHANGED <<files, issued, ret, managers, hotels_before, arg>>

NextSales == ComputeSalesTotals

SpecSales == InitSales /\ [][NextSales]_vars

\* an item that is valid: a title of the catalogue, alone or with a
\* quantity that is a non-negative number
C25_Valid(item, lookup) ==
    \/ item.kind = "str" /\ py_strip(item.val) \in DOMAIN lookup
    \/ /\ item.kind = "dict"
       /\ "title" \in DOMAIN item.val
       /\ item.val.title.kind = "str"
       /\ py_strip(item.val.title.val) \in DOMAIN lookup
       /\ "quantity" \in DOMAIN item.val =>
             \/ item.val.quantity.kind = "int" /\ item.val.quantity.val >= 0
             \/ item.val.quantity.kind = "float" /\ item.val.quantity.val >= 0

\* price x quantity of a valid item
C25_Contribution(item, lookup) ==
    IF item.kind = "str" THEN lookup[py_strip(item.val)]
    ELSE lookup[py_strip(item.val.title.val)]
            * (IF "quantity" \notin DOMAIN item.val THEN 1
               ELSE IF item.val.quantity.kind = "int"
               THEN item.val.quantity.val
               ELSE item.val.quantity.val \div 2)

\* the items of a well-formed sale, none for a malformed one
C25_Items(sale) ==
    IF sale.kind = "dict" /\ "items" \in DOMAIN sale.val
          /\ sale.val.items.kind = "list"
    THEN sale.val.items.val ELSE <<>>

RECURSIVE C25_Sum(_)
C25_Sum(amounts) ==
    IF amounts = <<>> THEN 0 ELSE Head(amounts) + C25_Sum(Tail(amounts))

\* the total of a sale: the contributions of its valid items
C25_Total(sale, lookup) ==
    LET items == C25_Items(sale)
    IN  C25_Sum([i \in 1..Len(items) |->
                    IF C25_Valid(items[i], lookup)
                    THEN C25_Contribution(items[i], lookup) ELSE 0])

\* the number of errors to report: one per malformed sale and invalid item
C25_Errors(sale, lookup) ==
    LET items == C25_Items(sale)
    IN  (IF sale.kind = "dict" /\ "items" \in DOMAIN sale.val
            /\ sale.val.items.kind = "list" THEN 0 ELSE 1)
          + Cardinality({i \in 1..Len(items) : ~C25_Valid(items[i], lookup)})

\* C25: compute_sales_totals never aborts; it returns one total per sales
\* record, in input order, each the sum of price x quantity of the sale's
\* valid items (quantity 1 for a bare title), an invalid item or a malformed
\* sale contributing 0 with a reported error, and a global total equal to
\* the sum of the per-sale totals.
C25_SalesTotals ==
    call = "compute_sales_totals" =>
        LET sales == arg.sales_records
        IN  /\ result.exc = ""
            /\ Len(result.sale_totals) = Len(sales)
            /\ \A i \in 1..Len(sales) :
                  result.sale_totals[i] = C25_Total(sales[i], arg.lookup)
            /\ result.global_total = C25_Sum(result.sale_totals)
            /\ result.errors =
                  C25_Sum([i \in 1..Len(sales) |->
                              C25_Errors(sales[i], arg.lookup)])

-----------------------------------------------------------------------------
(* Room accounting: the calls that reserve and release rooms, without the  *)
(* calls that edit or delete a hotel.                                      *)

NextAccounting ==
    \/ CreateHotel
    \/ CreateCustomer
    \/ DeleteCustomer
    \/ CreateReservation
    \/ CancelReservation

SpecAccounting == Init /\ [][NextAccounting]_vars

\* the rooms of the active reservations among some reservation records
RECURSIVE ActiveRooms(_, _)
ActiveRooms(lines, hotel_id) ==
    IF lines = <<>> THEN 0
    ELSE (IF Head(lines).hotel_id = hotel_id
             /\ Head(lines).status = JStr("active")
          THEN Head(lines).room_count.val ELSE 0)
            + ActiveRooms(Tail(lines), hotel_id)

\* C26: in every state reachable from an empty store by create_hotel,
\* create_customer, delete_customer, create_reservation and
\* cancel_reservation calls, each stored hotel satisfies available_rooms +
\* (sum of room_count over its active reservations) = total_rooms.
C26_RoomAccounting ==
    \A i \in 1..Len(hotels_file) :
        hotels_file[i].available_rooms.val
            + ActiveRooms(reservations_file, hotels_file[i].hotel_id)
          = hotels_file[i].total_rooms.val

\* a hotel has one room reserved after another reservation of it was
\* cancelled
C26_Witness ==
    /\ call = "cancel_reservation"
    /\ ret.outcome = "ok"
    /\ \E i \in 1..Len(hotels_file) :
          /\ hotels_file[i].total_rooms.val = MaxRooms
          /\ hotels_file[i].available_rooms.val = MaxRooms - 1
          /\ ActiveRooms(reservations_file, hotels_file[i].hotel_id) = 1
          /\ \E r \in 1..Len(reservations_file) :
                /\ reservations_file[r].hotel_id = hotels_file[i].hotel_id
                /\ reservations_file[r].status = JStr("cancelled")


\* C27: in every state reachable from an empty store by any sequence of
\* HotelSystem operations, modify_hotel_information changing total_rooms or
\* available_rooms while reservations are active included, each stored
\* hotel satisfies available_rooms + (sum of room_count over its active
\* reservations) <= total_rooms.
C27_NoOverbooking ==
    \A i \in 1..Len(hotels_file) :
        hotels_file[i].available_rooms.val
            + ActiveRooms(reservations_file, hotels_file[i].hotel_id)
          <= hotels_file[i].total_rooms.val


\* the stored reservations that are active
C28_Active ==
    {t \in 1..Len(reservations_file) :
        reservations_file[t].status = JStr("active")}

\* C28: in every state reachable from an empty store by any sequence of
\* HotelSystem operations, every reservation with status 'active'
\* references a hotel and a customer that are both stored, and
\* display_reservation_information shows its customer's name, not the
\* placeholder; cancel_reservation of an active reservation never fails
\* (only cancelled reservations may dangle).
C28_ReferentialIntegrity ==
    /\ [](\A t \in C28_Active :
            /\ HotelsWithId(reservations_file[t].hotel_id) # {}
            /\ CustomersWithId(reservations_file[t].customer_id) # {}
            /\ LET shown == reservation_information(
                                reservations_file[t].reservation_id)
               IN  /\ shown # None
                   /\ shown.value.customer_name
                         # JStr("Cliente no encontrado")
                   /\ \E c \in CustomersWithId(reservations_file[t].customer_id) :
                         customers_file[c].full_name
                             = shown.value.customer_name)
    /\ [][\A t \in C28_Active :
            cancel_reservation(reservations_file[t].reservation_id) =>
                ret'.outcome = "ok"]_vars

\* a hotel was deleted and left its cancelled reservation dangling, while
\* the reservation of another hotel is active
C28_Witness ==
    /\ call = "delete_hotel"
    /\ ret.outcome = "ok"
    /\ C28_Active # {}
    /\ \E t \in 1..Len(reservations_file) :
          /\ reservations_file[t].status = JStr("cancelled")
          /\ HotelsWithId(reservations_file[t].hotel_id) = {}
          /\ reservation_information(reservations_file[t].reservation_id)
                # None

-----------------------------------------------------------------------------
(* The two-file operations write by write: create_reservation and          *)
(* cancel_reservation save the hotels file, then the reservations file.    *)
(* The process can stop between the two writes; the next call then starts  *)
(* from the files as they were left.                                       *)

\* the one process that runs the calls
Process == "m1"

\* create_reservation up to and including self._save_hotels(hotels)
create_reservation_save_hotels(id, customer_id, hotel_id, room_count) ==
    LET customers == load_customers(customers_file)
        hotels == load_hotels(hotels_file)
        reservations == load_reservations(reservations_file)
        c == FirstIndex(customers,
                        LAMBDA current : current.customer_id = customer_id)
        h == FirstIndex(hotels, LAMBDA current : current.hotel_id = hotel_id)
        hotel == [hotels[h] EXCEPT !.available_rooms =
                      rooms_after_reservation(hotels[h], room_count)]
        reservation == [reservation_id |-> id, customer_id |-> customer_id,
                        hotel_id |-> hotel_id, room_count |-> room_count,
                        status |-> JStr("active")]
        validated == Reservation_from_dict(Reservation_to_dict(reservation))
        failed == IF room_count.kind # "int" THEN TRUE
                  ELSE IF room_count.val <= 0 \/ c = 0 \/ h = 0 THEN TRUE
                  ELSE IF insufficient_rooms(hotels[h], room_count) THEN TRUE
                  ELSE validated.is_none
    IN  IF failed
        THEN /\ ret' = IF room_count.kind # "int"
                       THEN Outcome("raise", JStr("TypeError"))
                       ELSE Outcome("fail", JNull)
             /\ UNCHANGED <<files, issued, managers>>
        ELSE /\ id # JNull
             /\ hotels_file' = save_hotels([hotels EXCEPT ![h] = hotel])
             /\ managers' = [managers EXCEPT ![Process] =
                   [pc |-> "save_reservations",
                    reservations |-> Append(reservations, validated.value),
                    result |-> Outcome("ok", validated.value)]]
             /\ issued' = issued \cup {id}
             /\ UNCHANGED <<customers_file, reservations_file, ret>>

\* cancel_reservation up to and including self._save_hotels(hotels)
cancel_reservation_save_hotels(reservation_id) ==
    LET hotels == load_hotels(hotels_file)
        reservations == load_reservations(reservations_file)
        t == FirstIndex(reservations,
                        LAMBDA reservation :
                            reservation.reservation_id = reservation_id)
        target == reservations[t]
        h == FirstIndex(hotels,
                        LAMBDA current : current.hotel_id = target.hotel_id)
        hotel == [hotels[h] EXCEPT !.available_rooms =
                      rooms_after_cancellation(hotels[h], target)]
        failed == IF t = 0 THEN TRUE
                  ELSE IF already_cancelled(target) THEN TRUE
                  ELSE h = 0
    IN  IF failed
        THEN /\ ret' = Outcome("fail", JNull)
             /\ UNCHANGED <<files, issued, managers>>
        ELSE /\ hotels_file' = save_hotels([hotels EXCEPT ![h] = hotel])
             /\ managers' = [managers EXCEPT ![Process] =
                   [pc |-> "save_reservations",
                    reservations |->
                        [reservations EXCEPT ![t].status = JStr("cancelled")],
                    result |-> Outcome("ok", JNull)]]
             /\ UNCHANGED <<customers_file, reservations_file, issued, ret>>

\* self._save_reservations(reservations) and the return of either call
save_reservations_and_return ==
    /\ managers[Process].pc = "save_reservations"
    /\ reservations_file' = save_reservations(managers[Process].reservations)
    /\ ret' = managers[Process].result
    /\ managers' = [managers EXCEPT ![Process] = Idle]
    /\ UNCHANGED <<hotels_file, customers_file, issued, call>>

\* the process stops between the two writes
stop_between_writes ==
    /\ managers[Process].pc = "save_reservations"
    /\ managers' = [managers EXCEPT ![Process] = Idle]
    /\ call' = "stopped"
    /\ ret' = Outcome("raise", JStr("SystemExit"))
    /\ UNCHANGED <<files, issued>>

CreateHotelWhenIdle == managers[Process] = Idle /\ CreateHotel

CreateCustomerWhenIdle == managers[Process] = Idle /\ CreateCustomer

CreateReservationSaveHotels ==
    /\ managers[Process] = Idle
    /\ call' = "create_reservation"
    /\ \E id \in next_id("RES"), customer_id \in CustomerIdArgs,
          hotel_id \in HotelIdArgs, room_count \in RoomCountArgs :
           create_reservation_save_hotels(id, customer_id, hotel_id, room_count)
    /\ UNCHANGED <<arg, result, hotels_before>>

CancelReservationSaveHotels ==
    /\ managers[Process] = Idle
    /\ call' = "cancel_reservation"
    /\ \E reservation_id \in ReservationIdArgs :
           cancel_reservation_save_hotels(reservation_id)
    /\ UNCHANGED <<arg, result, hotels_before>>

SaveReservationsAndReturn ==
    /\ save_reservations_and_return
    /\ UNCHANGED <<arg, result, hotels_before>>

StopBetweenWrites ==
    /\ stop_between_writes
    /\ UNCHANGED <<arg, result, hotels_before>>

NextCrash ==
    \/ CreateHotelWhenIdle
    \/ CreateCustomerWhenIdle
    \/ CreateReservationSaveHotels
    \/ CancelReservationSaveHotels
    \/ SaveReservationsAndReturn
    \/ StopBetweenWrites

SpecCrash == Init /\ [][NextCrash]_vars

\* C29: create_reservation and cancel_reservation write the hotels file
\* first and the reservations file second; when execution stops between
\* the two writes and later calls resume from the files, every hotel of
\* every persisted state reachable by create_hotel, create_customer,
\* create_reservation and cancel_reservation still satisfies
\* available_rooms + (sum of room_count over its active reservations) <=
\* total_rooms.
C29_CrashConsistent ==
    managers[Process] = Idle =>
        \A i \in 1..Len(hotels_file) :
            hotels_file[i].available_rooms.val
                + ActiveRooms(reservations_file, hotels_file[i].hotel_id)
              <= hotels_file[i].total_rooms.val

-----------------------------------------------------------------------------
(* Files that were edited by hand before the manager is used: each holds a *)
(* record that fails validation, next to records that load as valid but    *)
(* are not written the way the manager writes them (a number as a string,  *)
(* a missing optional field).                                              *)

InitRewrite ==
    /\ hotels_file =
          <<[hotel_id |-> JStr("HOT-0"), name |-> JStr("Hotel Viejo"),
             location |-> JStr("Monterrey"), total_rooms |-> JInt(MaxRooms),
             available_rooms |-> JInt(MaxRooms + 1),
             amenities |-> JList(<<>>)],
            [hotel_id |-> JStr("HOT-2"), name |-> JStr("Hotel Centro"),
             location |-> JStr("Monterrey"),
             total_rooms |-> JStr(ToString(MaxRooms)),
             available_rooms |-> JInt(MaxRooms)]>>
    /\ customers_file =
          <<[customer_id |-> JStr("CUS-0"), full_name |-> JStr("Ana Perez"),
             email |-> JStr("ana.example.com"), phone |-> JStr("8111111111")]>>
    /\ reservations_file =
          <<[reservation_id |-> JStr("RES-0"), customer_id |-> JStr("CUS-0"),
             hotel_id |-> JStr("HOT-2"), room_count |-> JInt(0),
             status |-> JStr("active")],
            [reservation_id |-> JStr("RES-2"), customer_id |-> JStr("CUS-0"),
             hotel_id |-> JStr("HOT-2"), room_count |-> JStr("1"),
             status |-> JStr("cancelled")]>>
    /\ issued = {JStr("HOT-2"), JStr("RES-2")}
    /\ call = "init"
    /\ managers = [m \in Managers |-> Idle]
    /\ arg = JNull
    /\ result = JNull
    /\ hotels_before = <<>>
    /\ ret = Outcome("ok", JNull)

SpecRewrite == InitRewrite /\ [][Next]_vars

\* a list with one record appended
C30_Appended(old, new) ==
    /\ Len(new) = Len(old) + 1
    /\ SubSeq(new, 1, Len(old)) = old

\* a list with one record removed
C30_Removed(old, new) ==
    /\ Len(new) = Len(old) - 1
    /\ \E i \in 1..Len(old) :
          new = SubSeq(old, 1, i - 1) \o SubSeq(old, i + 1, Len(old))

\* a list with at most one record changed, the others in place
C30_Updated(old, new) ==
    /\ Len(new) = Len(old)
    /\ \E i \in 1..Len(old) : \A j \in 1..Len(old) : j # i => new[j] = old[j]

\* the records of each file that load as valid, field by field as the
\* manager holds them
C30_ValidHotels ==
    LET hotels == load_hotels(hotels_file)
    IN  [i \in 1..Len(hotels) |-> Hotel_to_dict(hotels[i])]

C30_ValidCustomers ==
    LET customers == load_customers(customers_file)
    IN  [i \in 1..Len(customers) |-> Customer_to_dict(customers[i])]

C30_ValidReservations ==
    LET reservations == load_reservations(reservations_file)
    IN  [i \in 1..Len(reservations) |-> Reservation_to_dict(reservations[i])]

\* C30: after a successful mutating operation the rewritten file holds
\* exactly the records that loaded as valid before the call, in their
\* original order, with the operation's single change applied (a record
\* appended, removed or updated): the records rejected at load are not
\* written back; the files of the other collections are untouched, and
\* the read-only operations (display_*, search_reservations_by_name) and
\* the failed operations rewrite no file.
C30_RewriteOnSave ==
    [][IF ret'.outcome # "ok"
          \/ call' \in {"display_hotel_information",
                        "display_customer_information",
                        "display_reservation_information",
                        "search_reservations_by_name"}
       THEN UNCHANGED files
       ELSE
         /\ call' = "create_hotel" =>
              /\ C30_Appended(C30_ValidHotels, hotels_file')
              /\ UNCHANGED <<customers_file, reservations_file>>
         /\ call' = "delete_hotel" =>
              /\ C30_Removed(C30_ValidHotels, hotels_file')
              /\ UNCHANGED <<customers_file, reservations_file>>
         /\ call' = "modify_hotel_information" =>
              /\ C30_Updated(C30_ValidHotels, hotels_file')
              /\ UNCHANGED <<customers_file, reservations_file>>
         /\ call' = "create_customer" =>
              /\ C30_Appended(C30_ValidCustomers, customers_file')
              /\ UNCHANGED <<hotels_file, reservations_file>>
         /\ call' = "delete_customer" =>
              /\ C30_Removed(C30_ValidCustomers, customers_file')
              /\ UNCHANGED <<hotels_file, reservations_file>>
         /\ call' = "modify_customer_information" =>
              /\ C30_Updated(C30_ValidCustomers, customers_file')
              /\ UNCHANGED <<hotels_file, reservations_file>>
         /\ call' \in {"create_reservation", "reserve_room"} =>
              /\ C30_Updated(C30_ValidHotels, hotels_file')
              /\ C30_Appended(C30_ValidReservations, reservations_file')
              /\ UNCHANGED customers_file
         /\ call' = "cancel_reservation" =>
              /\ C30_Updated(C30_ValidHotels, hotels_file')
              /\ C30_Updated(C30_ValidReservations, reservations_file')
              /\ UNCHANGED customers_file
      ]_vars

\* a hotel was created: the hotels file has lost its rejected record and
\* keeps the valid one, rewritten with its number as a number, in front of
\* the new one, while the other files, rewritten by no call so far, still
\* hold theirs
C30_Witness ==
    /\ call = "create_hotel"
    /\ ret.outcome = "ok"
    /\ Len(hotels_file) = 2
    /\ hotels_file[1].hotel_id = JStr("HOT-2")
    /\ hotels_file[1].total_rooms = JInt(MaxRooms)
    /\ hotels_file[2] = Hotel_to_dict(ret.value)
    /\ Len(customers_file) = 1
    /\ Customer_from_dict(customers_file[1]) = None
    /\ Len(reservations_file) = 2
    /\ Reservation_from_dict(reservations_file[1]) = None

=============================================================================
